---------------------------- MODULE Spec2Model ----------------------------
(***************************************************************************)
(* Model of the backup/restore tool (package backup, utils, clone).        *)
(*                                                                         *)
(* Strings.  A Go string is modelled as the sequence of its characters.    *)
(* A path is kept in the state as the sequence of its segments (the        *)
(* pieces between separators), each segment an atom whose spelling is      *)
(* given by Chars; string functions (strings.ToLower, strings.Contains,    *)
(* strings.HasPrefix, sort order) are computed on the spelling.            *)
(***************************************************************************)
EXTENDS Integers, Sequences, FiniteSets, TLC

(***************************************************************************)
(* Bounds of the model.                                                    *)
(***************************************************************************)
\* longest selectedSteps list passed to ApplyBackupSelected
MaxSel == 2
\* I/O operations that may fail in one invocation
MaxFaults == 1
\* longest list of names passed to UseBackupSets
MaxNames == 2
\* number of UseBackupSet / UseBackupSets calls in one behaviour
MaxCalls == 2
\* invocations of create / apply one after the other in one behaviour
MaxRuns == 2

(***************************************************************************)
(* State.                                                                  *)
(***************************************************************************)
VARIABLES
    op,             \* the operation invoked: "apply" or "create"
    home,           \* os.UserHomeDir()
    backupFile,     \* apply's backupFile argument ("" = the latest)
    selectedSteps,  \* apply's selectedSteps argument
    remoteHas,      \* the remote store holds the archive under linux/backups/
    archive,        \* the tree packed in that archive
    pc,             \* position in ApplyBackupSelected / CreateBackup
    err,            \* the error returned ("nil" if none)
    stageExists,    \* tmpDir exists
    stage,          \* the tree under tmpDir
    live,           \* the live filesystem
    live0,          \* the live filesystem when the operation was invoked
    stepIdx,        \* index of the step the loop of apply is at
    walk,           \* entries filepath.Walk has still to visit in this step
    snap,           \* outcome of the snapshot of the entry being applied
    faults,         \* I/O failures so far
    out,            \* lines printed, and the writes done, in order
    cloneCalls      \* calls of clone.CloneAll

pvars == << op, home, backupFile, selectedSteps, remoteHas, archive, pc, err,
            stageExists, stage, live, live0, stepIdx, walk, snap, faults, out,
            cloneCalls >>

VARIABLES
    ActiveBackupSets,   \* the ordered list of active sets
    Folders,            \* the merged global slices
    FilesAdd,
    FilesRemove,
    panicked,           \* the paths the last call's panic named, or NoPanic
    calls               \* UseBackupSet / UseBackupSets calls so far

mvars == << ActiveBackupSets, Folders, FilesAdd, FilesRemove, panicked, calls >>

VARIABLES
    prev,               \* the earlier invocations: what was invoked, and the
                        \* live filesystem it was invoked on
    args                \* the names given to the last UseBackupSet(s) call

hvars == << prev, args >>

VARIABLE
    other               \* where a second invocation of the same operation,
                        \* run at the same time, is ("none": there is none)

vars == << pvars, mvars, hvars, other >>

(***************************************************************************)
(* Characters, in byte order (the order sort.Strings and filepath.Walk     *)
(* use).                                                                   *)
(***************************************************************************)
Alphabet ==
    << " ", ",", "-", ".", "/",
       "A", "B", "C", "D", "E", "F", "G", "H", "I", "J", "K", "L", "M",
       "N", "O", "P", "Q", "R", "S", "T", "U", "V", "W", "X", "Y", "Z",
       "_",
       "a", "b", "c", "d", "e", "f", "g", "h", "i", "j", "k", "l", "m",
       "n", "o", "p", "q", "r", "s", "t", "u", "v", "w", "x", "y", "z",
       "~" >>

\* the position of each character in byte order
RankOf ==
    [c \in { Alphabet[i] : i \in 1..Len(Alphabet) } |->
        CHOOSE i \in 1..Len(Alphabet) : Alphabet[i] = c]

ByteRank(c) == RankOf[c]

IsUpper(c) == ByteRank(c) >= ByteRank("A") /\ ByteRank(c) <= ByteRank("Z")

\* unicode.ToLower on each character
LowerOf ==
    [c \in DOMAIN RankOf |->
        IF IsUpper(c) THEN Alphabet[ByteRank(c) - ByteRank("A") + ByteRank("a")]
        ELSE c]

LowerChar(c) == LowerOf[c]

\* strings.ToLower
ToLower(s) == [i \in 1..Len(s) |-> LowerChar(s[i])]

\* strings.EqualFold (simple case folding over the alphabet above)
EqualFold(s, t) == ToLower(s) = ToLower(t)

\* strings.HasPrefix
HasPrefix(s, p) == Len(p) <= Len(s) /\ SubSeq(s, 1, Len(p)) = p

\* strings.Contains
Contains(s, sub) ==
    \E i \in 1..(Len(s) - Len(sub) + 1) : SubSeq(s, i, i + Len(sub) - 1) = sub

\* byte-wise s < t, the order of sort.Strings
RECURSIVE StrLess(_, _)
StrLess(s, t) ==
    IF t = << >> THEN FALSE
    ELSE IF s = << >> THEN TRUE
    ELSE IF s[1] # t[1] THEN ByteRank(s[1]) < ByteRank(t[1])
    ELSE StrLess(Tail(s), Tail(t))

(***************************************************************************)
(* Spelling of the atoms used as path segments, step names and set names.  *)
(***************************************************************************)
Chars(a) ==
    CASE a = "home"         -> << "h", "o", "m", "e" >>
      [] a = "alice"        -> << "a", "l", "i", "c", "e" >>
      [] a = "github.com"   -> << "g", "i", "t", "h", "u", "b", ".", "c", "o", "m" >>
      [] a = ".gitconfig"   -> << ".", "g", "i", "t", "c", "o", "n", "f", "i", "g" >>
      [] a = ".zshrc"       -> << ".", "z", "s", "h", "r", "c" >>
      [] a = "setup"        -> << "s", "e", "t", "u", "p" >>
      [] a = ".env"         -> << ".", "e", "n", "v" >>
      [] a = "repo"         -> << "r", "e", "p", "o" >>
      [] a = "file"         -> << "f", "i", "l", "e" >>
      [] a = "etc"          -> << "e", "t", "c" >>
      [] a = "prime"        -> << "p", "r", "i", "m", "e" >>
      [] a = "originals"    -> << "o", "r", "i", "g", "i", "n", "a", "l", "s" >>
      [] a = "tmp"          -> << "t", "m", "p" >>
      [] a = "old"          -> << "o", "l", "d" >>
      [] a = "before clone" -> << "b", "e", "f", "o", "r", "e", " ", "c", "l", "o", "n", "e" >>
      [] a = "clone all"    -> << "c", "l", "o", "n", "e", " ", "a", "l", "l" >>
      [] a = "after clone"  -> << "a", "f", "t", "e", "r", " ", "c", "l", "o", "n", "e" >>
      [] a = "Before Clone" -> << "B", "e", "f", "o", "r", "e", " ", "C", "l", "o", "n", "e" >>
      [] a = "CLONE ALL"    -> << "C", "L", "O", "N", "E", " ", "A", "L", "L" >>
      [] a = "After Clone"  -> << "A", "f", "t", "e", "r", " ", "C", "l", "o", "n", "e" >>
      [] a = "clone"        -> << "c", "l", "o", "n", "e" >>
      [] a = "bogus"        -> << "b", "o", "g", "u", "s" >>
      [] a = "~"            -> << "~" >>
      [] a = "a"            -> << "a" >>
      [] a = "A"            -> << "A" >>
      [] a = "B"            -> << "B" >>
      [] a = "C"            -> << "C" >>
      [] a = "b"            -> << "b" >>
      [] a = "c"            -> << "c" >>
      [] a = "d"            -> << "d" >>
      [] a = "h"            -> << "h" >>
      [] a = ""             -> << >>
      [] a = "default"      -> << "d", "e", "f", "a", "u", "l", "t" >>
      [] a = "alicebot"     -> << "a", "l", "i", "c", "e", "b", "o", "t" >>
      [] a = "AliceBot"     -> << "A", "l", "i", "c", "e", "B", "o", "t" >>
      [] a = "extra"        -> << "e", "x", "t", "r", "a" >>
      [] a = "mixed"        -> << "m", "i", "x", "e", "d" >>
      [] a = "shout"        -> << "s", "h", "o", "u", "t" >>
      [] a = "nosuch"       -> << "n", "o", "s", "u", "c", "h" >>
      [] a = "respelled"    -> << "r", "e", "s", "p", "e", "l", "l", "e", "d" >>
      [] a = "conversations" ->
            << "c", "o", "n", "v", "e", "r", "s", "a", "t", "i", "o", "n", "s" >>
      [] a = "extensions"   ->
            << "e", "x", "t", "e", "n", "s", "i", "o", "n", "s" >>
      [] a = "create"       -> << "c", "r", "e", "a", "t", "e" >>
      [] a = "Create"       -> << "C", "r", "e", "a", "t", "e" >>
      [] a = "apply"        -> << "a", "p", "p", "l", "y" >>
      [] a = "--help"       -> << "-", "-", "h", "e", "l", "p" >>
      [] a = "-h"           -> << "-", "h" >>
      [] a = "-H"           -> << "-", "H" >>
      [] a = "--list-steps" ->
            << "-", "-", "l", "i", "s", "t", "-", "s", "t", "e", "p", "s" >>
      [] a = "refresh_token" ->
            << "r", "e", "f", "r", "e", "s", "h", "_", "t", "o", "k", "e", "n" >>
      [] a = "oauth_token"  ->
            << "o", "a", "u", "t", "h", "_", "t", "o", "k", "e", "n" >>
      [] a = "after clone, Before Clone" ->
            << "a", "f", "t", "e", "r", " ", "c", "l", "o", "n", "e", ",", " ",
               "B", "e", "f", "o", "r", "e", " ", "C", "l", "o", "n", "e" >>
      [] a = ",bogus, ,"    -> << ",", "b", "o", "g", "u", "s", ",", " ", "," >>

\* the string a path denotes: its segments joined by the separator
RECURSIVE Spell(_)
Spell(segs) ==
    IF segs = << >> THEN << >>
    ELSE IF Len(segs) = 1 THEN Chars(segs[1])
    ELSE Chars(segs[1]) \o << "/" >> \o Spell(Tail(segs))

(***************************************************************************)
(* buildBackupSteps: the three steps and the two path filters.  home is    *)
(* the absolute home directory as its sequence of segments (<< >> is "/"). *)
(***************************************************************************)
StepNames == << "before clone", "clone all", "after clone" >>

\* strings.TrimPrefix(home, "/"), then TrimPrefix(_, "./"), then ToSlash
relHomePrefix(h) ==
    IF Len(h) > 1 /\ h[1] = "." THEN Tail(h) ELSE h

setupRelPath(h) == relHomePrefix(h) \o << "setup" >>

userGitConfig(h) == relHomePrefix(h) \o << ".gitconfig" >>

GithubSlash == Chars("github.com") \o << "/" >>

BeforeCloneFilter(h, rel) ==
    IF Spell(rel) = Spell(userGitConfig(h)) THEN TRUE
    ELSE IF Contains(Spell(rel), GithubSlash) THEN FALSE
    ELSE IF \/ Spell(rel) = Spell(setupRelPath(h))
            \/ HasPrefix(Spell(rel), Spell(setupRelPath(h)) \o << "/" >>)
         THEN FALSE
    ELSE TRUE

AfterCloneFilter(h, rel) ==
    IF Contains(Spell(rel), GithubSlash) THEN TRUE
    ELSE IF \/ Spell(rel) = Spell(setupRelPath(h))
            \/ HasPrefix(Spell(rel), Spell(setupRelPath(h)) \o << "/" >>)
         THEN TRUE
    ELSE FALSE

\* step.Filter != nil
HasFilter(step) == step # "clone all"

\* step.Filter(rel, info)
Filter(step, h, rel) ==
    IF step = "before clone" THEN BeforeCloneFilter(h, rel)
    ELSE AfterCloneFilter(h, rel)

(***************************************************************************)
(* File trees.  A tree is a function from the paths that exist (sequences  *)
(* of segments, relative to the tree's root, the root itself left out) to  *)
(* nodes [kind, data, mode].  The live filesystem is the tree rooted at    *)
(* "/"; the StagingRoot (tmpDir) is a tree of its own: no archive entry    *)
(* of the model lies under <home>/setup/backups/tmp or                     *)
(* <home>/setup/assets/tmp.                                                *)
(***************************************************************************)
Dir(p) == SubSeq(p, 1, Len(p) - 1)

Prefixes(p) == { SubSeq(p, 1, i) : i \in 1..Len(p) }

IsPrefix(d, p) == Len(d) <= Len(p) /\ SubSeq(p, 1, Len(d)) = d

DirNode(mode) == [kind |-> "dir", data |-> << >>, mode |-> mode]

FileNode(data, mode) == [kind |-> "file", data |-> data, mode |-> mode]

\* os.Stat(p) taken to fail whatever is there
ExistsNever(fs, p) == FALSE

\* os.Stat(p) succeeds
Exists(fs, p) == p = << >> \/ p \in DOMAIN fs

\* os.MkdirAll(p, mode) can succeed: no prefix of p is a file
MkdirAllOk(fs, p) == \A q \in Prefixes(p) : q \in DOMAIN fs => fs[q].kind = "dir"

\* os.MkdirAll(p, mode): every missing directory of p is created with mode
MkdirAll(fs, p, mode) ==
    [q \in DOMAIN fs \cup Prefixes(p) |->
        IF q \in DOMAIN fs THEN fs[q] ELSE DirNode(mode)]

\* a directory with nothing in it (what os.RemoveAll and MkdirAll leave)
EmptyTree == << >>

\* utils.CopyFile(src, dst, mode) can succeed: the parents can be made and dst
\* is not a directory
CopyFileOk(fs, dst) ==
    /\ MkdirAllOk(fs, Dir(dst))
    /\ dst \in DOMAIN fs => fs[dst].kind = "file"

\* CopyFile giving the mode to dst also when dst was there (a chmod)
CopyFileChmod(fs, dst, data, mode) ==
    LET g == MkdirAll(fs, Dir(dst), "0755")
    IN  [q \in DOMAIN g \cup {dst} |->
            IF q = dst THEN FileNode(data, mode) ELSE g[q]]

\* utils.CopyFile: MkdirAll(Dir(dst), 0755), then OpenFile(dst,
\* O_CREATE|O_WRONLY|O_TRUNC, mode) and io.Copy.  The mode is given to a file
\* that OpenFile creates; a file that exists keeps its mode.
CopyFile(fs, dst, data, mode) ==
    LET g == MkdirAll(fs, Dir(dst), "0755")
    IN  [q \in DOMAIN g \cup {dst} |->
            IF q = dst
            THEN FileNode(data, IF dst \in DOMAIN g THEN g[dst].mode ELSE mode)
            ELSE g[q]]

\* utils.CopyFile failing: either before dst is opened (the parents made, dst
\* untouched) or during io.Copy (dst truncated, partly written)
CopyFileFailed(fs, dst, mode) ==
    { MkdirAll(fs, Dir(dst), "0755"), CopyFile(fs, dst, << "partial" >>, mode) }

(***************************************************************************)
(* filepath.Walk: lexical order of names in every directory, pre-order.    *)
(***************************************************************************)
RECURSIVE PathLess(_, _)
PathLess(p, q) ==
    IF q = << >> THEN FALSE
    ELSE IF p = << >> THEN TRUE
    ELSE IF p[1] # q[1] THEN StrLess(Chars(p[1]), Chars(q[1]))
    ELSE PathLess(Tail(p), Tail(q))

\* the paths of S in that order: the i-th has i - 1 paths before it
SortPaths(S) ==
    [i \in 1..Cardinality(S) |->
        CHOOSE x \in S : Cardinality({ y \in S : PathLess(y, x) }) = i - 1]

\* the entries Walk will visit below the root if nothing is pruned
WalkOrder(tree) == SortPaths(DOMAIN tree)

RECURSIVE DropUnder(_, _)
\* filepath.SkipDir returned for directory d: its entries are not visited
DropUnder(d, w) ==
    IF w = << >> THEN << >>
    ELSE IF IsPrefix(d, Head(w)) THEN DropUnder(d, Tail(w))
    ELSE w


(***************************************************************************)
(* The manifest (write_files.go).  A manifest path is the sequence of the  *)
(* pieces of the string between separators: "~/.zshrc" is << "~",          *)
(* ".zshrc" >> and "/etc/prime" is << "", "etc", "prime" >>.               *)
(*                                                                         *)
(* The registry holds the two compiled-in sets, scaled down but with the   *)
(* overlap they have in the source (every path of "alicebot" is also in    *)
(* "default"), and three sets of the kind a developer may add.             *)
(***************************************************************************)
ConfigurationBackupSet ==
    [ Name        |-> "default",
      Folders     |-> << [Path |-> << "~", "setup" >>, Contents |-> << ".env" >>] >>,
      FilesAdd    |-> << [Path |-> << "~", ".gitconfig" >>, Update |-> TRUE],
                         [Path |-> << "~", ".zshrc" >>, Update |-> TRUE],
                         [Path |-> << "~", "github.com" >>, Update |-> TRUE],
                         [Path |-> << "", "etc", "prime" >>, Update |-> TRUE] >>,
      FilesRemove |-> << << "~", "old" >> >> ]

AliceBotBackupSet ==
    [ Name        |-> "alicebot",
      Folders     |-> << [Path |-> << "~", "setup" >>, Contents |-> << ".env" >>] >>,
      FilesAdd    |-> << [Path |-> << "~", "github.com" >>, Update |-> TRUE] >>,
      FilesRemove |-> << >> ]

\* shares no path with any other set
ExtraBackupSet ==
    [ Name        |-> "extra",
      Folders     |-> << [Path |-> << "~", "a" >>, Contents |-> << "file" >>] >>,
      FilesAdd    |-> << [Path |-> << "~", "b" >>, Update |-> FALSE] >>,
      FilesRemove |-> << << "~", "c" >> >> ]

\* one path is a folder and an added path, another is added and removed
MixedBackupSet ==
    [ Name        |-> "mixed",
      Folders     |-> << [Path |-> << "~", "h" >>, Contents |-> << "file" >>] >>,
      FilesAdd    |-> << [Path |-> << "~", "h" >>, Update |-> TRUE],
                         [Path |-> << "~", "d" >>, Update |-> TRUE] >>,
      FilesRemove |-> << << "~", "d" >> >> ]

\* the paths of "extra" in another letter case, in the same category
\* (~/B, ~/C) and in another one (~/A)
ShoutBackupSet ==
    [ Name        |-> "shout",
      Folders     |-> << >>,
      FilesAdd    |-> << [Path |-> << "~", "B" >>, Update |-> TRUE],
                         [Path |-> << "~", "A" >>, Update |-> TRUE] >>,
      FilesRemove |-> << << "~", "C" >> >> ]

\* the paths of "extra" written in another way, each in the same category:
\* with a separator at the end (~/a/, ~/c/) and with the home directory
\* written out (/home/alice/b)
RespelledBackupSet ==
    [ Name        |-> "respelled",
      Folders     |-> << [Path |-> << "~", "a", "" >>, Contents |-> << "file" >>] >>,
      FilesAdd    |-> << [Path |-> << "", "home", "alice", "b" >>,
                          Update |-> FALSE] >>,
      FilesRemove |-> << << "~", "c", "" >> >> ]

\* the registry, keyed by strings.ToLower(set.Name)
backupSets ==
    { ConfigurationBackupSet, AliceBotBackupSet, ExtraBackupSet, MixedBackupSet,
      ShoutBackupSet, RespelledBackupSet }

\* names a caller may give
SetNames == { "default", "AliceBot", "extra", "mixed", "shout", "nosuch" }

\* backupSets[strings.ToLower(name)], for each name a caller may give
Lookup ==
    [name \in SetNames \cup { "respelled" } |->
        { set \in backupSets :
            ToLower(Chars(set.Name)) = ToLower(Chars(name)) }]

\* the ok of set, ok := backupSets[strings.ToLower(name)]
Registered(name) == Lookup[name] # {}

GetBackupSet(name) == CHOOSE set \in Lookup[name] : TRUE

\* lines 117-127: what recomputeActiveSlices starts from
EmptyAcc ==
    [ folders |-> << >>, filesAdd |-> << >>, filesRemove |-> << >>,
      seenFolder |-> {}, seenAdd |-> {}, seenRemove |-> {},
      dupFolders |-> << >>, dupAdd |-> << >>, dupRemove |-> << >>,
      recordedFolderDup |-> {}, recordedAddDup |-> {}, recordedRemoveDup |-> {} ]

\* the paths the registered sets declare
ManifestPaths ==
    UNION { { set.Folders[i].Path : i \in 1..Len(set.Folders) }
              \cup { set.FilesAdd[i].Path : i \in 1..Len(set.FilesAdd) }
              \cup { set.FilesRemove[i] : i \in 1..Len(set.FilesRemove) }
            : set \in backupSets }

\* strings.ToLower(path), for each of them
KeyOf == [path \in ManifestPaths |-> ToLower(Spell(path))]

Key(path) == KeyOf[path]

\* lines 131-142, one folder
AddFolder(acc, f) ==
    LET key == Key(f.Path)
        a1  == IF key \in acc.seenFolder
               THEN IF key \notin acc.recordedFolderDup
                    THEN [acc EXCEPT !.dupFolders = Append(@, f.Path),
                                     !.recordedFolderDup = @ \cup {key}]
                    ELSE acc
               ELSE [acc EXCEPT !.seenFolder = @ \cup {key}]
    IN  [a1 EXCEPT !.folders = Append(@, f)]

\* an added path put in front of the list instead of at its end
AddFileAddFront(acc, fa) ==
    LET key == Key(fa.Path)
    IN  IF key \in acc.seenAdd
        THEN IF key \notin acc.recordedAddDup
             THEN [acc EXCEPT !.dupAdd = Append(@, fa.Path),
                              !.recordedAddDup = @ \cup {key}]
             ELSE acc
        ELSE [acc EXCEPT !.seenAdd = @ \cup {key},
                         !.filesAdd = << fa >> \o @]

\* lines 145-156, one added path
AddFileAdd(acc, fa) ==
    LET key == Key(fa.Path)
    IN  IF key \in acc.seenAdd
        THEN IF key \notin acc.recordedAddDup
             THEN [acc EXCEPT !.dupAdd = Append(@, fa.Path),
                              !.recordedAddDup = @ \cup {key}]
             ELSE acc
        ELSE [acc EXCEPT !.seenAdd = @ \cup {key},
                         !.filesAdd = Append(@, fa)]

\* lines 159-170, one removed path
AddFileRemove(acc, fr) ==
    LET key == Key(fr)
    IN  IF key \in acc.seenRemove
        THEN IF key \notin acc.recordedRemoveDup
             THEN [acc EXCEPT !.dupRemove = Append(@, fr),
                              !.recordedRemoveDup = @ \cup {key}]
             ELSE acc
        ELSE [acc EXCEPT !.seenRemove = @ \cup {key},
                         !.filesRemove = Append(@, fr)]

RECURSIVE FoldSeq(_, _, _)
\* for _, x := range xs { acc = Op(acc, x) }
FoldSeq(Op(_, _), acc, xs) ==
    IF xs = << >> THEN acc ELSE FoldSeq(Op, Op(acc, Head(xs)), Tail(xs))

\* lines 129-171, one active set
AddSet(acc, set) ==
    FoldSeq(AddFileRemove,
            FoldSeq(AddFileAdd,
                    FoldSeq(AddFolder, acc, set.Folders),
                    set.FilesAdd),
            set.FilesRemove)

\* lines 112-171: the merge of the active sets
Merge(active) == FoldSeq(AddSet, EmptyAcc, active)

\* the call returned: there was no panic and so no path named
NoPanic == [Folders |-> << >>, FilesAdd |-> << >>, FilesRemove |-> << >>]

\* line 174: duplicates were found, recomputeActiveSlices panics
Panics(acc) ==
    Len(acc.dupFolders) > 0 \/ Len(acc.dupAdd) > 0 \/ Len(acc.dupRemove) > 0

\* lines 175-185: the duplicate paths the panic message names
PanicMessage(acc) ==
    [Folders |-> acc.dupFolders, FilesAdd |-> acc.dupAdd,
     FilesRemove |-> acc.dupRemove]

\* recomputeActiveSlices() on the active sets `active`: the globals are
\* assigned (lines 188-190) only if it did not panic
recomputeActiveSlices(active) ==
    \E acc \in { Merge(active) } :
        IF Panics(acc)
        THEN /\ panicked' = PanicMessage(acc)
             /\ UNCHANGED << Folders, FilesAdd, FilesRemove >>
        ELSE /\ panicked' = NoPanic
             /\ Folders' = acc.folders
             /\ FilesAdd' = acc.filesAdd
             /\ FilesRemove' = acc.filesRemove

\* the package's variables after init(): the default set, merged
InitManifest ==
    /\ ActiveBackupSets = << ConfigurationBackupSet >>
    /\ Folders = Merge(ActiveBackupSets).folders
    /\ FilesAdd = Merge(ActiveBackupSets).filesAdd
    /\ FilesRemove = Merge(ActiveBackupSets).filesRemove
    /\ panicked = NoPanic
    /\ calls = 0

NameLists == UNION { [1..n -> SetNames] : n \in 1..MaxNames }

\* UseBackupSet(name)
UseBackupSet(name) ==
    /\ calls < MaxCalls
    /\ calls' = calls + 1
    /\ UNCHANGED << pvars, prev, other >>
    /\ IF Registered(name)
       THEN /\ ActiveBackupSets' = << GetBackupSet(name) >>
            /\ recomputeActiveSlices(<< GetBackupSet(name) >>)
       ELSE UNCHANGED << ActiveBackupSets, Folders, FilesAdd, FilesRemove,
                         panicked >>

\* lines 209-214: the sets the names resolve to, in the order given
\* the sets found, the last one first
ResolveReversed(names) ==
    LET known == SelectSeq(names, Registered)
    IN  [i \in 1..Len(known) |-> GetBackupSet(known[Len(known) + 1 - i])]

\* lines 210-215: the sets of the names that are registered, in the order
\* of the names
Resolve(names) ==
    LET known == SelectSeq(names, Registered)
    IN  [i \in 1..Len(known) |-> GetBackupSet(known[i])]

\* UseBackupSets(names...)
UseBackupSets(names) ==
    /\ calls < MaxCalls
    /\ calls' = calls + 1
    /\ UNCHANGED << pvars, prev, other >>
    /\ \E sets \in { Resolve(names) } :
          IF Len(sets) > 0
          THEN /\ ActiveBackupSets' = sets
               /\ recomputeActiveSlices(sets)
          ELSE UNCHANGED << ActiveBackupSets, Folders, FilesAdd, FilesRemove,
                            panicked >>


(***************************************************************************)
(* Inputs of the pipelines.                                                *)
(***************************************************************************)
\* os.UserHomeDir() on the machines considered: /home/alice, / and
\* /home/github.com
Homes == { << "home", "alice" >>, << >>, << "home", "github.com" >> }

\* names a caller may give in selectedSteps
SelNames == { "Before Clone", "CLONE ALL", "after clone", "bogus" }

Selections == UNION { [1..n -> SelNames] : n \in 0..MaxSel }

\* the files of an archive made on a machine with that home
ArchiveFiles(h) ==
    { h \o << ".gitconfig" >>, h \o << ".zshrc" >>,
      h \o << "github.com", "repo", "file" >>, h \o << "setup", ".env" >>,
      << "etc", "prime" >>, << "originals", "old" >>, << "tmp", "old" >> }

PlainFiles(h) == { h \o << ".zshrc" >>, << "etc", "prime" >> }

\* the tree holding exactly these files, and the directories above them
TreeOf(files, tag, fmode, dmode) ==
    [q \in UNION { Prefixes(f) : f \in files } |->
        IF q \in files THEN FileNode(<< tag, q >>, fmode) ELSE DirNode(dmode)]

Archives(h) ==
    { TreeOf(ArchiveFiles(h), "new", "0600", "0700"),
      TreeOf(PlainFiles(h), "new", "0600", "0700") }

\* the live filesystem before the call: nothing there, or every path of the
\* machine already there with its old content
LiveFiles(h) ==
    ArchiveFiles(h) \ { << "originals", "old" >>, << "tmp", "old" >> }

Lives(h) == { EmptyTree, TreeOf(LiveFiles(h), "old", "0644", "0755") }

\* what an earlier invocation may have left in tmpDir
StaleTree == TreeOf({ << "etc", "old" >> }, "stale", "0600", "0700")

MayFail == faults < MaxFaults

\* The calls considered: ApplyBackupSelected(file, steps) as the CLI's apply
\* makes it, ApplyBackup("") and the CLI's clone (no file, two steps), and
\* CreateBackup().
Calls ==
    [o : {"apply"}, file : {"given"}, steps : Selections, remote : BOOLEAN]
    \cup [o : {"apply"}, file : {""},
          steps : { << >>, << "clone all", "after clone" >> }, remote : BOOLEAN]
    \cup [o : {"create"}, file : {""}, steps : { << >> }, remote : {FALSE}]

\* the archive in the store (apply); create has made none yet
ArchivesFor(o, h) == IF o = "apply" THEN Archives(h) ELSE { EmptyTree }

InitPipeline ==
    /\ \E c \in Calls :
          /\ op = c.o
          /\ backupFile = c.file
          /\ selectedSteps = c.steps
          /\ remoteHas = c.remote
    /\ home \in Homes
    /\ archive \in ArchivesFor(op, home)
    /\ pc = "start"
    /\ err = "nil"
    /\ stageExists \in BOOLEAN
    /\ stage = IF stageExists THEN StaleTree ELSE EmptyTree
    /\ live \in Lives(home)
    /\ live0 = live
    /\ stepIdx = 0
    /\ walk = << >>
    /\ snap = "none"
    /\ faults = 0
    /\ out = << >>
    /\ cloneCalls = 0

\* return fmt.Errorf(...): the operation returns the error, nothing else done
Return(e) ==
    /\ pc' = "returned"
    /\ err' = e


(***************************************************************************)
(* ApplyBackupSelected                                                     *)
(***************************************************************************)
\* lines 117-128: the home directory, then a fresh tmpDir.  os.RemoveAll's
\* error is dropped: when it fails, what was in tmpDir stays.
ApplySetup ==
    /\ op = "apply" /\ pc = "start"
    /\ \/ /\ MayFail /\ faults' = faults + 1
          /\ Return("could not get user home")
          /\ UNCHANGED << stageExists, stage >>
       \/ /\ MayFail /\ faults' = faults + 1
          /\ Return("could not create tmp dir")
          /\ stageExists' = FALSE /\ stage' = EmptyTree
       \/ /\ MayFail /\ stageExists /\ faults' = faults + 1
          /\ pc' = "resolve"
          /\ UNCHANGED << err, stageExists, stage >>
       \/ /\ pc' = "resolve"
          /\ stageExists' = TRUE /\ stage' = EmptyTree
          /\ UNCHANGED << err, faults >>
    /\ UNCHANGED << mvars, hvars, other >>
    /\ UNCHANGED << op, home, backupFile, selectedSteps, remoteHas, archive, live,
                    live0, stepIdx, walk, snap, out, cloneCalls >>

\* lines 131-137: GetLatestDriveBackup when no file was named
ApplyResolve ==
    /\ op = "apply" /\ pc = "resolve"
    /\ IF backupFile # ""
       THEN pc' = "download" /\ UNCHANGED << err, backupFile, faults >>
       ELSE \/ /\ ~remoteHas
               /\ Return("could not find latest backup in Google Drive")
               /\ UNCHANGED << backupFile, faults >>
            \/ /\ MayFail /\ faults' = faults + 1
               /\ Return("could not find latest backup in Google Drive")
               /\ UNCHANGED backupFile
            \/ /\ remoteHas
               /\ backupFile' = "latest" /\ pc' = "download"
               /\ UNCHANGED << err, faults >>
    /\ UNCHANGED << mvars, hvars, other >>
    /\ UNCHANGED << op, home, selectedSteps, remoteHas, archive, stageExists,
                    stage, live, live0, stepIdx, walk, snap, out, cloneCalls >>

\* lines 140-143: DownloadFromDrive into backupsDir
ApplyDownload ==
    /\ op = "apply" /\ pc = "download"
    /\ \/ /\ ~remoteHas
          /\ Return("failed to download backup from Google Drive")
          /\ UNCHANGED faults
       \/ /\ MayFail /\ faults' = faults + 1
          /\ Return("failed to download backup from Google Drive")
       \/ /\ remoteHas
          /\ pc' = "extract"
          /\ UNCHANGED << err, faults >>
    /\ UNCHANGED << mvars, hvars, other >>
    /\ UNCHANGED << op, home, backupFile, selectedSteps, remoteHas, archive,
                    stageExists, stage, live, live0, stepIdx, walk, snap, out,
                    cloneCalls >>

\* tar -xJf archive -C tmpDir: the entries of the archive are written over
\* what tmpDir holds
extractTarXz(tree, arch) ==
    [q \in DOMAIN tree \cup DOMAIN arch |->
        IF q \in DOMAIN arch THEN arch[q] ELSE tree[q]]

\* lines 146-164: extraction, then the steps are built and the requested
\* names validated, one warning for each name that is no step's name
UnknownStep(sel) ==
    \A i \in 1..Len(StepNames) :
        ToLower(Chars(StepNames[i])) # ToLower(Chars(sel))

Warnings(sels) ==
    SelectSeq([i \in 1..Len(sels) |-> [ev |-> "warn", name |-> sels[i]]],
              LAMBDA e : UnknownStep(e.name))

\* the steps gone on to although the archive was not extracted
extractFailedIgnored == pc' = "loop" /\ stepIdx' = 1 /\ UNCHANGED err

\* lines 146-148: if err := extractTarXz(...); err != nil { return ... }
extractFailed == Return("could not extract backup") /\ UNCHANGED stepIdx

\* the loop entered at the last step
extractedAtLast == pc' = "loop" /\ stepIdx' = Len(StepNames)

\* line 165: the loop over the steps begins, with the first one
extracted == pc' = "loop" /\ stepIdx' = 1

ApplyExtract ==
    /\ op = "apply" /\ pc = "extract"
    /\ \/ /\ MayFail /\ faults' = faults + 1
          /\ extractFailed
          /\ UNCHANGED << stage, out >>
       \/ \* tar -C tmpDir with no tmpDir
          /\ ~stageExists
          /\ extractFailed
          /\ UNCHANGED << stage, out, faults >>
       \/ /\ stageExists
          /\ stage' = extractTarXz(stage, archive)
          /\ out' = out \o Warnings(selectedSteps)
          /\ extracted
          /\ UNCHANGED << err, faults >>
    /\ UNCHANGED << mvars, hvars, other >>
    /\ UNCHANGED << op, home, backupFile, selectedSteps, remoteHas, archive,
                    stageExists, live, live0, walk, snap, cloneCalls >>

\* shouldRun comparing the names as written (the letter case counts)
shouldRunExact(sels, step) ==
    \/ Len(sels) = 0
    \/ \E i \in 1..Len(sels) : Chars(sels[i]) = Chars(step)

\* shouldRun falling back to every step when no requested name is a step's
shouldRunFallback(sels, step) ==
    \/ Len(sels) = 0
    \/ \E i \in 1..Len(sels) : EqualFold(Chars(sels[i]), Chars(step))
    \/ \A i \in 1..Len(sels) : \A j \in 1..Len(StepNames) :
           ~EqualFold(Chars(sels[i]), Chars(StepNames[j]))

\* lines 166-174: shouldRun
shouldRun(sels, step) ==
    \/ Len(sels) = 0
    \/ \E i \in 1..Len(sels) : EqualFold(Chars(sels[i]), Chars(step))

\* lines 165-190, one turn of the loop up to the step's own work
ApplyStep ==
    /\ op = "apply" /\ pc = "loop" /\ stepIdx <= Len(StepNames)
    /\ LET step == StepNames[stepIdx]
           run  == shouldRun(selectedSteps, step)
       IN  /\ out' = IF run THEN Append(out, [ev |-> "step", name |-> step])
                     ELSE out
           /\ IF run /\ EqualFold(Chars(step), Chars("clone all"))
              THEN pc' = "clone" /\ UNCHANGED << stepIdx, walk, err >>
              ELSE IF run /\ HasFilter(step) /\ ~stageExists
              THEN \* filepath.Walk of a tmpDir that is not there
                   /\ Return("could not apply backup step")
                   /\ UNCHANGED << stepIdx, walk >>
              ELSE IF run /\ HasFilter(step)
              THEN /\ pc' = "walk" /\ walk' = WalkOrder(stage)
                   /\ UNCHANGED << stepIdx, err >>
              ELSE stepIdx' = stepIdx + 1 /\ UNCHANGED << pc, walk, err >>
    /\ UNCHANGED << mvars, hvars, other >>
    /\ UNCHANGED << op, home, backupFile, selectedSteps, remoteHas, archive,
                    stageExists, stage, live, live0, snap, faults, cloneCalls >>

\* the error of the clone step kept, and the loop going on to the next step
runCloneAllFailedContinue ==
    /\ err' = "could not run 'clone all' step"
    /\ pc' = "loop" /\ stepIdx' = stepIdx + 1

\* lines 179-181: if err := runCloneAllStep(); err != nil { return ... }
runCloneAllFailed ==
    Return("could not run 'clone all' step") /\ UNCHANGED stepIdx

\* lines 178-183 and runCloneAllStep: clone.CloneAll(), whose failure ends
\* the call
ApplyClone ==
    /\ op = "apply" /\ pc = "clone"
    /\ cloneCalls' = cloneCalls + 1
    /\ \/ /\ MayFail /\ faults' = faults + 1
          /\ runCloneAllFailed
       \/ /\ pc' = "loop" /\ stepIdx' = stepIdx + 1
          /\ UNCHANGED << err, faults >>
    /\ UNCHANGED << mvars, hvars, other >>
    /\ UNCHANGED << op, home, backupFile, selectedSteps, remoteHas, archive,
                    stageExists, stage, live, live0, walk, snap, out >>

\* tmp alone is reserved
ReservedTmpOnly(rel) == rel[1] = "tmp"

\* applyFromTmpWithFilter, lines 226-249: is the entry passed over?
Reserved(rel) == rel[1] = "tmp" \/ rel[1] = "originals"

\* the filter of the step not asked
SkippedReservedOnly(step, h, rel) == Reserved(rel)

\* lines 233-247: reserved, or turned down by the filter of the step
Skipped(step, h, rel) == Reserved(rel) \/ ~Filter(step, h, rel)

\* line 251: filepath.Join("/", rel)
Target(rel) == rel

Wrote(kind, rel) ==
    [ev |-> kind, name |-> StepNames[stepIdx], path |-> rel]

\* applyFromTmpWithFilter, lines 221-258: the walk function on the next
\* entry, up to the directory made or the file found to apply
WalkVisit ==
    /\ op = "apply" /\ pc = "walk" /\ walk # << >>
    /\ LET rel  == Head(walk)
           info == stage[rel]
       IN  IF rel \notin DOMAIN stage
           THEN \* lines 222-224: the entry is gone, Walk hands the error over
                /\ Return("could not apply backup step")
                /\ UNCHANGED << live, faults, out, walk >>
           ELSE IF Skipped(StepNames[stepIdx], home, rel)
           THEN /\ walk' = IF info.kind = "dir" THEN DropUnder(rel, walk)
                           ELSE Tail(walk)
                /\ UNCHANGED << pc, err, live, faults, out >>
           ELSE IF info.kind = "dir"
           THEN \/ /\ MkdirAllOk(live, Target(rel))
                   /\ live' = MkdirAll(live, Target(rel), info.mode)
                   /\ out' = Append(out, Wrote("mkdir", rel))
                   /\ walk' = Tail(walk)
                   /\ UNCHANGED << pc, err, faults >>
                \/ /\ (MayFail \/ ~MkdirAllOk(live, Target(rel)))
                   /\ faults' = faults + 1
                   /\ Return("could not apply backup step")
                   /\ UNCHANGED << live, out, walk >>
           ELSE /\ pc' = IF Exists(live, Target(rel)) THEN "snapshot" ELSE "copy"
                /\ UNCHANGED << err, live, faults, out, walk >>
    /\ snap' = "none"
    /\ UNCHANGED << mvars, hvars, other >>
    /\ UNCHANGED << op, home, backupFile, selectedSteps, remoteHas, archive,
                    stageExists, stage, live0, stepIdx, cloneCalls >>

\* line 259: filepath.Join(originalsDir, rel)
backupPath(rel) == << "originals" >> \o rel

\* the snapshot taken from the staged file instead of the live one
SnapshotDataStaged(fs, rel) == stage[rel].data

\* line 261: what is copied into the originals area
SnapshotData(fs, rel) == fs[Target(rel)].data

\* the os.FileInfo Walk handed over for the entry: that of the staged
\* entry, which the archive brought if it was not left by an earlier
\* invocation (the entry itself may be gone by now)
FileInfo(rel) ==
    IF rel \in DOMAIN stage THEN stage[rel]
    ELSE IF rel \in DOMAIN archive THEN archive[rel]
    ELSE StaleTree[rel]

\* lines 258-263: the live file that exists is copied to originals/<rel>
\* first; neither a MkdirAll error nor a CopyFile error stops the walk
WalkSnapshot ==
    /\ op = "apply" /\ pc = "snapshot"
    /\ LET rel  == Head(walk)
           info == FileInfo(rel)
       IN  \/ /\ CopyFileOk(stage, backupPath(rel))
              /\ stage' = CopyFile(stage, backupPath(rel),
                                   SnapshotData(live, rel), info.mode)
              /\ snap' = "ok"
              /\ out' = Append(out, Wrote("snapshot", rel))
              /\ UNCHANGED faults
           \/ /\ (MayFail \/ ~CopyFileOk(stage, backupPath(rel)))
              /\ faults' = faults + 1
              /\ snap' = "failed"
              /\ \/ UNCHANGED stage
                 \/ /\ CopyFileOk(stage, backupPath(rel))
                    /\ stage' \in CopyFileFailed(stage, backupPath(rel), info.mode)
              /\ UNCHANGED out
    /\ pc' = "copy"
    /\ stageExists' = (stageExists \/ stage' # EmptyTree)
    /\ UNCHANGED << mvars, hvars, other >>
    /\ UNCHANGED << op, home, backupFile, selectedSteps, remoteHas, archive, err,
                    live, live0, stepIdx, walk, cloneCalls >>

\* line 265 with nil: filepath.Walk goes on to the next entry
CopyDone == pc' = "walk" /\ walk' = Tail(walk)

\* line 265 with an error: filepath.Walk stops and returns it, and lines
\* 185-187 return it from ApplyBackupSelected
CopyFailed == Return("could not apply backup step") /\ UNCHANGED walk

\* line 265: return utils.CopyFile(path, target, info.Mode())
WalkCopy ==
    /\ op = "apply" /\ pc = "copy"
    /\ LET rel  == Head(walk)
           info == stage[rel]
       IN  \/ /\ rel \in DOMAIN stage
              /\ CopyFileOk(live, Target(rel))
              /\ live' = CopyFile(live, Target(rel), info.data, info.mode)
              /\ out' = Append(out, Wrote("copy", rel))
              /\ CopyDone
              /\ UNCHANGED << err, faults >>
           \/ \* the staged file is gone: os.Open(src) fails
              /\ rel \notin DOMAIN stage
              /\ live' = IF MkdirAllOk(live, Dir(Target(rel)))
                         THEN MkdirAll(live, Dir(Target(rel)), "0755")
                         ELSE live
              /\ CopyFailed
              /\ UNCHANGED << out, faults >>
           \/ /\ rel \in DOMAIN stage
              /\ (MayFail \/ ~CopyFileOk(live, Target(rel)))
              /\ faults' = faults + 1
              /\ \/ UNCHANGED live
                 \/ /\ CopyFileOk(live, Target(rel))
                    /\ live' \in CopyFileFailed(live, Target(rel), info.mode)
              /\ CopyFailed
              /\ UNCHANGED out
    /\ UNCHANGED << mvars, hvars, other >>
    /\ UNCHANGED << op, home, backupFile, selectedSteps, remoteHas, archive,
                    stageExists, stage, live0, stepIdx, snap, cloneCalls >>

\* line 185: the walk is over and returned nil; the loop goes on
WalkEnd ==
    /\ op = "apply" /\ pc = "walk" /\ walk = << >>
    /\ pc' = "loop" /\ stepIdx' = stepIdx + 1
    /\ UNCHANGED << mvars, hvars, other >>
    /\ UNCHANGED << op, home, backupFile, selectedSteps, remoteHas, archive, err,
                    stageExists, stage, live, live0, walk, snap, faults, out,
                    cloneCalls >>

\* lines 192-194: _ = os.RemoveAll(tmpDir); return nil
ApplyCleanup ==
    /\ op = "apply" /\ pc = "loop" /\ stepIdx > Len(StepNames)
    /\ \/ /\ stageExists' = FALSE /\ stage' = EmptyTree
          /\ UNCHANGED faults
       \/ /\ MayFail /\ faults' = faults + 1
          /\ UNCHANGED << stageExists, stage >>
    /\ pc' = "returned"
    /\ UNCHANGED << mvars, hvars, other >>
    /\ UNCHANGED << op, home, backupFile, selectedSteps, remoteHas, archive, err,
                    live, live0, stepIdx, walk, snap, out, cloneCalls >>

(***************************************************************************)
(* CreateBackup (create_backup.go, lines 24-121) and the path helpers of   *)
(* package utils.                                                          *)
(***************************************************************************)
\* filepath.Clean on the pieces of a path: the empty pieces and "." go,
\* but for the empty first piece of an absolute path
Clean(path) ==
    LET rest == SelectSeq(path, LAMBDA x : x # "" /\ x # ".")
    IN  IF path # << >> /\ path[1] = "" THEN << "" >> \o rest ELSE rest

\* utils.ExpandHome: a path that starts with "~" is joined to the home
\* directory (the manifest's paths start with the piece "~" or with "/")
ExpandHome(h, path) ==
    IF path # << >> /\ HasPrefix(Chars(path[1]), << "~" >>)
    THEN Clean(<< "" >> \o h \o Tail(path))
    ELSE path

RECURSIVE TrimLeadingSlash(_)
\* utils.TrimLeadingSlash
TrimLeadingSlash(path) ==
    IF path # << >> /\ path[1] = "" THEN TrimLeadingSlash(Tail(path)) ELSE path

\* the key of an absolute path in the tree rooted at "/", which is also
\* filepath.Join(targetDir, relPath) relative to targetDir
RelPath(abs) == TrimLeadingSlash(Clean(abs))

\* the mode os.Create gives a new file (0666 under the usual umask 022)
DefaultMode == "0644"

\* CopyAllToTarget, lines 82-96: the paths copied, in order
RECURSIVE FolderItems(_)
FolderItems(folders) ==
    IF folders = << >> THEN << >>
    ELSE [i \in 1..Len(Head(folders).Contents) |->
             Clean(Head(folders).Path \o << Head(folders).Contents[i] >>)]
         \o FolderItems(Tail(folders))

\* the added paths alone, the contents of the folders left out
ItemsAddsOnly(adds, folders) == [i \in 1..Len(adds) |-> adds[i].Path]

Items(adds, folders) ==
    [i \in 1..Len(adds) |-> adds[i].Path] \o FolderItems(folders)

\* utils.CopyDir(src, dst) into the tree `into`, at the same relative path:
\* filepath.Walk over src; a directory is made with its mode (MkdirAll, which
\* gives that mode to the missing parents too), a file is copied with its
\* mode (CopyFile, which leaves the mode of a file that exists)
CopyDir(fs, src, into) ==
    LET under == { q \in DOMAIN fs : IsPrefix(src, q) }
    IN  [q \in DOMAIN into \cup Prefixes(src) \cup under |->
            IF q \in under /\ fs[q].kind = "file"
            THEN FileNode(fs[q].data,
                          IF q \in DOMAIN into THEN into[q].mode ELSE fs[q].mode)
            ELSE IF q \in DOMAIN into THEN into[q]
            ELSE IF q \in under THEN DirNode(fs[q].mode)
            ELSE DirNode(fs[src].mode)]

\* lines 26-37: the home directory, then a fresh tmpDir
CreateSetup ==
    /\ op = "create" /\ pc = "start"
    /\ \/ /\ MayFail /\ faults' = faults + 1
          /\ Return("could not get user home dir")
          /\ UNCHANGED << stageExists, stage, walk >>
       \/ /\ MayFail /\ faults' = faults + 1
          /\ Return("could not create tmp dir")
          /\ stageExists' = FALSE /\ stage' = EmptyTree
          /\ UNCHANGED walk
       \/ /\ MayFail /\ stageExists /\ faults' = faults + 1
          /\ pc' = "items" /\ walk' = Items(FilesAdd, Folders)
          /\ UNCHANGED << err, stageExists, stage >>
       \/ /\ pc' = "items" /\ walk' = Items(FilesAdd, Folders)
          /\ stageExists' = TRUE /\ stage' = EmptyTree
          /\ UNCHANGED << err, faults >>
    /\ UNCHANGED << mvars, hvars, other >>
    /\ UNCHANGED << op, home, backupFile, selectedSteps, remoteHas, archive, live,
                    live0, stepIdx, snap, out, cloneCalls >>

\* lines 84 and 93: fmt.Fprintf(os.Stderr, "Error copying %s: %v\n", ...)
ErrorCopying(item) == [ev |-> "error", name |-> "copying", path |-> item]

\* CopyAllToTarget, one turn of its loops: copyFileToTarget on one path; an
\* error is printed and the loop goes on
CreateCopy ==
    /\ op = "create" /\ pc = "items" /\ walk # << >>
    /\ LET item == Head(walk)
           src  == RelPath(ExpandHome(home, item))
       IN  \/ /\ src \in DOMAIN live /\ live[src].kind = "file"
              /\ CopyFileOk(stage, src)
              /\ stage' = CopyFile(stage, src, live[src].data, DefaultMode)
              /\ UNCHANGED << out, faults >>
           \/ /\ src \in DOMAIN live /\ live[src].kind = "dir"
              /\ MkdirAllOk(stage, src)
              /\ stage' = CopyDir(live, src, stage)
              /\ UNCHANGED << out, faults >>
           \/ /\ src \notin DOMAIN live
              /\ out' = Append(out, ErrorCopying(item))
              /\ UNCHANGED << stage, faults >>
           \/ /\ MayFail /\ faults' = faults + 1
              /\ src \in DOMAIN live
              /\ out' = Append(out, ErrorCopying(item))
              /\ \/ UNCHANGED stage
                 \/ /\ live[src].kind = "file" /\ CopyFileOk(stage, src)
                    /\ stage' \in CopyFileFailed(stage, src, DefaultMode)
    /\ walk' = Tail(walk)
    /\ stageExists' = (stageExists \/ stage' # EmptyTree)
    /\ UNCHANGED << mvars, hvars, other >>
    /\ UNCHANGED << op, home, backupFile, selectedSteps, remoteHas, archive, pc,
                    err, live, live0, stepIdx, snap, cloneCalls >>

\* lines 44-67: tar -C tmpDir -cJf archivePath .
\* the failure of tar passed over
archiveFailedIgnored == pc' = "cleanup" /\ UNCHANGED err

\* lines 65-67: tar failed, CreateBackup returns the error
archiveFailed == Return("failed to create archive")

CreateArchive ==
    /\ op = "create" /\ pc = "items" /\ walk = << >>
    /\ \/ /\ MayFail /\ faults' = faults + 1
          /\ archiveFailed
          /\ UNCHANGED archive
       \/ \* tar -C tmpDir with no tmpDir
          /\ ~stageExists
          /\ archiveFailed
          /\ UNCHANGED << archive, faults >>
       \/ /\ stageExists
          /\ archive' = stage
          /\ pc' = "cleanup"
          /\ UNCHANGED << err, faults >>
    /\ UNCHANGED << mvars, hvars, other >>
    /\ UNCHANGED << op, home, backupFile, selectedSteps, remoteHas, stageExists,
                    stage, live, live0, stepIdx, walk, snap, out, cloneCalls >>

\* lines 69-75: os.RemoveAll(tmpDir), whose error is returned here
CreateCleanup ==
    /\ op = "create" /\ pc = "cleanup"
    /\ \/ /\ MayFail /\ faults' = faults + 1
          /\ Return("could not clean up tmp dir")
          /\ UNCHANGED << stageExists, stage, out >>
       \/ /\ stageExists' = FALSE /\ stage' = EmptyTree
          /\ out' = Append(out, [ev |-> "created"])
          /\ pc' = "returned"
          /\ UNCHANGED << err, faults >>
    /\ UNCHANGED << mvars, hvars, other >>
    /\ UNCHANGED << op, home, backupFile, selectedSteps, remoteHas, archive, live,
                    live0, stepIdx, walk, snap, cloneCalls >>

(***************************************************************************)
(* Specifications.  Spec: one invocation of apply or of create, with the   *)
(* default manifest.  SpecSets: calls of UseBackupSet / UseBackupSets.     *)
(***************************************************************************)
NoHistory == prev = << >> /\ args = << >> /\ other = "none"

Init == InitPipeline /\ InitManifest /\ NoHistory

Next ==
    \/ ApplySetup \/ ApplyResolve \/ ApplyDownload \/ ApplyExtract
    \/ ApplyStep \/ ApplyClone \/ WalkVisit \/ WalkSnapshot \/ WalkCopy
    \/ WalkEnd \/ ApplyCleanup
    \/ CreateSetup \/ CreateCopy \/ CreateArchive \/ CreateCleanup

Spec == Init /\ [][Next]_vars

\* the call runs on: no statement of it that can be executed waits for ever
InitLive ==
    /\ Init
    /\ home = << "home", "alice" >>
    /\ selectedSteps \in { << >>, << "after clone", "Before Clone" >>, << "bogus" >> }

SpecLive == InitLive /\ [][Next]_vars /\ WF_vars(Next)

\* the pipelines at rest while the manifest is worked on
IdlePipeline ==
    /\ op = "create" /\ home = << "home", "alice" >>
    /\ backupFile = "" /\ selectedSteps = << >> /\ remoteHas = FALSE
    /\ archive = EmptyTree /\ pc = "start" /\ err = "nil"
    /\ stageExists = FALSE /\ stage = EmptyTree
    /\ live = EmptyTree /\ live0 = EmptyTree
    /\ stepIdx = 0 /\ walk = << >> /\ snap = "none" /\ faults = 0
    /\ out = << >> /\ cloneCalls = 0

InitSets == IdlePipeline /\ InitManifest /\ NoHistory

NextSets ==
    \/ \E name \in SetNames : UseBackupSet(name) /\ UNCHANGED args
    \/ \E names \in NameLists : UseBackupSets(names) /\ UNCHANGED args

SpecSets == InitSets /\ [][NextSets]_vars

\* the same calls, the names given to the last one kept in args
NextActivate ==
    \/ \E name \in SetNames : UseBackupSet(name) /\ args' = << name >>
    \/ \E names \in NameLists : UseBackupSets(names) /\ args' = names

SpecActivate == InitSets /\ [][NextActivate]_vars

\* calls that activate sets whose paths differ in spelling only
SpellingLists ==
    UNION { [1..n -> { "default", "extra", "shout", "respelled" }] : n \in 1..MaxNames }

NextSpelling == \E names \in SpellingLists : UseBackupSets(names) /\ args' = names

SpecSpelling == InitSets /\ [][NextSpelling]_vars

(***************************************************************************)
(* SpecTwice: the tool run again after a run that succeeded, on a machine  *)
(* whose active manifest is the set "extra" (plain files only: a folder    *)
(* with one selected file, an added path to preserve, a path to remove).   *)
(***************************************************************************)
PlainHome == << "home", "alice" >>

\* the paths the set "extra" names, on that machine
ExtraFiles ==
    { PlainHome \o << "a", "file" >>, PlainHome \o << "b" >>,
      PlainHome \o << "c" >> }

\* RunCLI, case "apply": the tool is run again, ApplyBackupSelected is
\* called with the archive in the store (the one create made, or the one
\* applied before) and the same steps
Again ==
    /\ pc = "returned" /\ err = "nil"
    /\ Len(prev) < MaxRuns - 1
    /\ prev' = Append(prev, [op |-> op, before |-> live0])
    /\ op' = "apply" /\ backupFile' = "given" /\ remoteHas' = TRUE
    /\ pc' = "start" /\ live0' = live
    /\ stepIdx' = 0 /\ walk' = << >> /\ snap' = "none"
    /\ out' = << >> /\ cloneCalls' = 0
    /\ UNCHANGED << home, selectedSteps, archive, err, stageExists, stage, live,
                    faults, args >>
    /\ UNCHANGED << mvars, other >>

InitTwice ==
    /\ op \in { "create", "apply" }
    /\ home = PlainHome
    /\ backupFile = IF op = "apply" THEN "given" ELSE ""
    /\ selectedSteps = << >>
    /\ remoteHas = (op = "apply")
    /\ archive = IF op = "apply" THEN TreeOf(ExtraFiles, "new", "0600", "0700")
                 ELSE EmptyTree
    /\ pc = "start" /\ err = "nil"
    /\ stageExists = FALSE /\ stage = EmptyTree
    /\ live \in { EmptyTree, TreeOf(ExtraFiles, "old", "0640", "0750") }
    /\ live0 = live
    /\ stepIdx = 0 /\ walk = << >> /\ snap = "none" /\ faults = 0
    /\ out = << >> /\ cloneCalls = 0
    /\ ActiveBackupSets = << ExtraBackupSet >>
    /\ Folders = Merge(ActiveBackupSets).folders
    /\ FilesAdd = Merge(ActiveBackupSets).filesAdd
    /\ FilesRemove = Merge(ActiveBackupSets).filesRemove
    /\ panicked = NoPanic /\ calls = 1
    /\ NoHistory

NextTwice == Next \/ Again

SpecTwice == InitTwice /\ [][NextTwice]_vars

(***************************************************************************)
(* SpecTree: copyZedConfigDirWithExcludes(src, dst) (create_backup.go,     *)
(* lines 233-258).  The tree under src is `live`, the tree under dst is    *)
(* `stage`; paths are relative to src and to dst.                          *)
(***************************************************************************)
\* conversations alone left out
excludeConversationsOnly == { "conversations" }

\* lines 144-147
excludeZedDirs == { "conversations", "extensions" }

\* files a source tree may hold: under an excluded directory, a file with
\* an excluded name, an excluded name below the top level, and others
TreeFiles ==
    { << "conversations", "file" >>, << "extensions" >>,
      << "a", "conversations", "file" >>, << "b" >>, << "repo", "file" >> }

\* what dst may hold of an earlier copy
DstBefore == TreeOf({ << "conversations", "file" >> }, "stale", "0600", "0700")

InitTree ==
    /\ op = "copytree" /\ home = PlainHome
    /\ backupFile = "" /\ selectedSteps = << >> /\ remoteHas = FALSE
    /\ archive = EmptyTree /\ pc = "start" /\ err = "nil"
    /\ \E S \in SUBSET TreeFiles : live = TreeOf(S, "src", "0600", "0700")
    /\ live0 = live
    /\ stageExists \in BOOLEAN
    /\ stage = IF stageExists THEN DstBefore ELSE EmptyTree
    /\ stepIdx = 0 /\ walk = << >> /\ snap = "none" /\ faults = 0
    /\ out = << >> /\ cloneCalls = 0
    /\ InitManifest /\ NoHistory

\* lines 234-257 on src itself: rel is ".", which is not excluded, and
\* os.MkdirAll(dst, mode) makes the destination
CopyTreeStart ==
    /\ op = "copytree" /\ pc = "start"
    /\ \/ /\ stageExists' = TRUE /\ pc' = "tree"
          /\ walk' = WalkOrder(live)
          /\ UNCHANGED << err, faults >>
       \/ /\ MayFail /\ faults' = faults + 1
          /\ Return("could not copy tree")
          /\ UNCHANGED << stageExists, walk >>
    /\ UNCHANGED << mvars, hvars, other >>
    /\ UNCHANGED << op, home, backupFile, selectedSteps, remoteHas, archive,
                    stage, live, live0, stepIdx, snap, out, cloneCalls >>

\* lines 234-257 on the next entry below src
CopyTreeVisit ==
    /\ op = "copytree" /\ pc = "tree" /\ walk # << >>
    /\ LET rel  == Head(walk)
           info == live[rel]
       IN  IF rel[1] \in excludeZedDirs
           THEN /\ walk' = IF info.kind = "dir" THEN DropUnder(rel, walk)
                           ELSE Tail(walk)
                /\ UNCHANGED << pc, err, stage, faults >>
           ELSE \/ /\ info.kind = "dir" /\ MkdirAllOk(stage, rel)
                   /\ stage' = MkdirAll(stage, rel, info.mode)
                   /\ walk' = Tail(walk)
                   /\ UNCHANGED << pc, err, faults >>
                \/ /\ info.kind = "file" /\ CopyFileOk(stage, rel)
                   /\ stage' = CopyFile(stage, rel, info.data, info.mode)
                   /\ walk' = Tail(walk)
                   /\ UNCHANGED << pc, err, faults >>
                \/ /\ MayFail /\ faults' = faults + 1
                   /\ Return("could not copy tree")
                   /\ \/ UNCHANGED stage
                      \/ /\ info.kind = "file" /\ CopyFileOk(stage, rel)
                         /\ stage' \in CopyFileFailed(stage, rel, info.mode)
                   /\ UNCHANGED walk
    /\ UNCHANGED << mvars, hvars, other >>
    /\ UNCHANGED << op, home, backupFile, selectedSteps, remoteHas, archive,
                    stageExists, live, live0, stepIdx, snap, out, cloneCalls >>

\* filepath.Walk is over and returns nil
CopyTreeEnd ==
    /\ op = "copytree" /\ pc = "tree" /\ walk = << >>
    /\ pc' = "returned"
    /\ UNCHANGED << mvars, hvars, other >>
    /\ UNCHANGED << op, home, backupFile, selectedSteps, remoteHas, archive, err,
                    stageExists, stage, live, live0, stepIdx, walk, snap, faults,
                    out, cloneCalls >>

NextTree == CopyTreeStart \/ CopyTreeVisit \/ CopyTreeEnd

SpecTree == InitTree /\ [][NextTree]_vars

(***************************************************************************)
(* SpecClone: the cloner, clone.CloneAll (unnamed/part_004).  A cloned     *)
(* repository is its target directory in `live` with a file HEAD in it     *)
(* whose data is the branch that is checked out.  The repositories are     *)
(* scaled down to one per base directory; the branch of the last one may   *)
(* be missing on the remote, as "alice-main" may.                          *)
(***************************************************************************)
\* lines 16-33
repositories ==
    << [base |-> << "home" >>,
        User |-> "alice-bnuy", Repository |-> "tools", Branch |-> "main"],
       [base |-> << "home", "github.com" >>,
        User |-> "alice-bnuy", Repository |-> "alicebot", Branch |-> "main"],
       [base |-> << "home", "Desktop", "github.com" >>,
        User |-> "alice-bnuy", Repository |-> "discordcore",
        Branch |-> "alice-main"] >>

Repos == { repositories[i] : i \in 1..Len(repositories) }

\* line 42: range over a map visits the base directories in any order
Orders ==
    { o \in [1..Len(repositories) -> 1..Len(repositories)] :
        \A i, j \in 1..Len(repositories) : i # j => o[i] # o[j] }

\* line 75: filepath.Join(baseDir, r.Repository)
targetDir(r) == r.base \o << r.Repository >>

\* the branch a clone without --branch checks out
DefaultBranch == "default"

\* the working tree git clone leaves at dir, on that branch
gitClone(fs, dir, branch) ==
    LET g == MkdirAll(fs, dir, "0755")
    IN  [q \in DOMAIN g \cup { dir \o << "HEAD" >> } |->
            IF q = dir \o << "HEAD" >> THEN FileNode(<< branch >>, "0644")
            ELSE g[q]]

\* git switch -c branch, in dir
gitSwitch(fs, dir, branch) ==
    [fs EXCEPT ![dir \o << "HEAD" >>] = FileNode(<< branch >>, "0644")]

\* the check of line 78 never finding the directory
alreadyExistsNever(fs, dir) == FALSE

\* line 78: os.Stat(targetDir) gave no error
alreadyExists(fs, dir) == dir \in DOMAIN fs

\* the machine before the first call: each repository is absent, or is a
\* checkout made earlier that is on another branch now
Checkouts ==
    { UNION { IF r \in S THEN { targetDir(r) \o << "HEAD" >> } ELSE {}
              : r \in Repos }
      : S \in SUBSET Repos }

InitClone ==
    /\ op = "cloneall" /\ home = << "home" >>
    /\ backupFile = "" /\ selectedSteps = << >> /\ remoteHas = FALSE
    /\ archive = EmptyTree /\ pc = "start" /\ err = "nil"
    /\ stageExists = FALSE /\ stage = EmptyTree
    /\ \E files \in Checkouts :
          live = TreeOf(files, "other", "0644", "0755")
    /\ live0 = live
    /\ stepIdx = 0 /\ walk = << >> /\ snap = "none" /\ faults = 0
    /\ out = << >> /\ cloneCalls = 0
    /\ InitManifest /\ NoHistory

Git(what, r, branch) ==
    [ev |-> what, name |-> branch, path |-> targetDir(r)]

\* lines 37-42: git is looked up, and the order of the map is settled
CloneAllStart ==
    /\ op = "cloneall" /\ pc = "start"
    /\ \/ /\ MayFail /\ faults' = faults + 1
          /\ Return("git command not found in PATH")
          /\ UNCHANGED << walk, stepIdx >>
       \/ /\ \E o \in Orders : walk' = [i \in 1..Len(o) |-> repositories[o[i]]]
          /\ pc' = "ensure" /\ stepIdx' = 0
          /\ UNCHANGED << err, faults >>
    /\ UNCHANGED << mvars, hvars, other >>
    /\ UNCHANGED << op, home, backupFile, selectedSteps, remoteHas, archive,
                    stageExists, stage, live, live0, snap, out, cloneCalls >>

\* lines 44-46 and 65-71: ensureDir(baseDir)
ensureDir ==
    /\ op = "cloneall" /\ pc = "ensure" /\ walk # << >>
    /\ LET baseDir == Head(walk).base
       IN  \/ /\ Exists(live, baseDir)
              /\ pc' = "repo"
              /\ UNCHANGED << live, err, faults >>
           \/ /\ ~Exists(live, baseDir) /\ MkdirAllOk(live, baseDir)
              /\ live' = MkdirAll(live, baseDir, "0755")
              /\ pc' = "repo"
              /\ UNCHANGED << err, faults >>
           \/ /\ ~Exists(live, baseDir) /\ MayFail
              /\ faults' = faults + 1
              /\ Return("failed to create base directory")
              /\ UNCHANGED live
    /\ UNCHANGED << mvars, hvars, other >>
    /\ UNCHANGED << op, home, backupFile, selectedSteps, remoteHas, archive,
                    stageExists, stage, live0, stepIdx, walk, snap, out,
                    cloneCalls >>

\* lines 73-102: cloneRepo(baseDir, r) up to the clone
cloneRepo ==
    /\ op = "cloneall" /\ pc = "repo"
    /\ LET r == Head(walk)
       IN  IF alreadyExists(live, targetDir(r))
           THEN \* lines 78-81
                /\ pc' = "ensure" /\ walk' = Tail(walk)
                /\ UNCHANGED << live, err, faults, out >>
           ELSE \/ \* lines 86-94: remoteBranchExists, clone --branch
                   /\ live' = gitClone(live, targetDir(r), r.Branch)
                   /\ out' = Append(out, Git("clone", r, r.Branch))
                   /\ pc' = "ensure" /\ walk' = Tail(walk)
                   /\ UNCHANGED << err, faults >>
                \/ /\ MayFail /\ faults' = faults + 1
                   /\ Return("failed to clone")
                   /\ UNCHANGED << live, walk, out >>
                \/ \* lines 95-102: no such remote branch, clone of the default
                   /\ live' = gitClone(live, targetDir(r), DefaultBranch)
                   /\ out' = Append(out, Git("clone", r, DefaultBranch))
                   /\ pc' = "switch"
                   /\ UNCHANGED << err, faults, walk >>
    /\ UNCHANGED << mvars, hvars, other >>
    /\ UNCHANGED << op, home, backupFile, selectedSteps, remoteHas, archive,
                    stageExists, stage, live0, stepIdx, snap, cloneCalls >>

\* lines 103-111: git switch -c r.Branch in targetDir
cloneRepoSwitch ==
    /\ op = "cloneall" /\ pc = "switch"
    /\ LET r == Head(walk)
       IN  \/ /\ live' = gitSwitch(live, targetDir(r), r.Branch)
              /\ out' = Append(out, Git("switch", r, r.Branch))
              /\ pc' = "ensure" /\ walk' = Tail(walk)
              /\ UNCHANGED << err, faults >>
           \/ /\ MayFail /\ faults' = faults + 1
              /\ Return("failed to create and switch to branch")
              /\ UNCHANGED << live, walk, out >>
    /\ UNCHANGED << mvars, hvars, other >>
    /\ UNCHANGED << op, home, backupFile, selectedSteps, remoteHas, archive,
                    stageExists, stage, live0, stepIdx, snap, cloneCalls >>

\* line 54: every base directory was visited
CloneAllEnd ==
    /\ op = "cloneall" /\ pc = "ensure" /\ walk = << >>
    /\ pc' = "returned"
    /\ UNCHANGED << mvars, hvars, other >>
    /\ UNCHANGED << op, home, backupFile, selectedSteps, remoteHas, archive, err,
                    stageExists, stage, live, live0, stepIdx, walk, snap, faults,
                    out, cloneCalls >>

\* CloneAll() is called again, on the machine as the last call left it
CloneAllAgain ==
    /\ op = "cloneall" /\ pc = "returned"
    /\ Len(prev) < MaxRuns - 1
    /\ prev' = Append(prev, [op |-> op, before |-> live0, err |-> err,
                             faults |-> faults])
    /\ pc' = "start" /\ err' = "nil" /\ live0' = live
    /\ walk' = << >> /\ out' = << >>
    /\ UNCHANGED << op, home, backupFile, selectedSteps, remoteHas, archive,
                    stageExists, stage, live, stepIdx, snap, faults, cloneCalls,
                    args >>
    /\ UNCHANGED << mvars, other >>

NextClone ==
    \/ CloneAllStart \/ ensureDir \/ cloneRepo \/ cloneRepoSwitch
    \/ CloneAllEnd \/ CloneAllAgain

SpecClone == InitClone /\ [][NextClone]_vars

(***************************************************************************)
(* SpecCLI: RunCLI (cli.go, lines 84-165).  args is os.Args, the name of   *)
(* the program first; the exit code is the last event of `out`.            *)
(***************************************************************************)
\* the words an argument may be
Words ==
    { "create", "Create", "apply", "clone", "--help", "-h", "-H", "--list-steps",
      "refresh_token", "oauth_token", "bogus", "before clone", "clone all",
      "after clone", "Before Clone", "CLONE ALL", "After Clone" }

\* the word with that spelling
Word(chars) == CHOOSE w \in Words : Chars(w) = chars

\* strings.TrimSpace
RECURSIVE TrimSpace(_)
TrimSpace(s) ==
    IF s = << >> THEN s
    ELSE IF Head(s) = " " THEN TrimSpace(Tail(s))
    ELSE IF s[Len(s)] = " " THEN TrimSpace(SubSeq(s, 1, Len(s) - 1))
    ELSE s

\* strings.FieldsFunc(s, r == ','): the runs of s between commas that are
\* not empty; cur is the run being read
RECURSIVE FieldsFunc(_, _)
FieldsFunc(s, cur) ==
    IF s = << >> THEN (IF cur = << >> THEN << >> ELSE << cur >>)
    ELSE IF Head(s) = ","
         THEN (IF cur = << >> THEN << >> ELSE << cur >>) \o FieldsFunc(Tail(s), << >>)
         ELSE FieldsFunc(Tail(s), Append(cur, Head(s)))

\* lines 124-130: the fields of stepsArg, trimmed, the empty ones left out
stepsOf(stepsArg) ==
    LET fields  == FieldsFunc(Chars(stepsArg), << >>)
        trimmed == [i \in 1..Len(fields) |-> TrimSpace(fields[i])]
        kept    == SelectSeq(trimmed, LAMBDA f : f # << >>)
    IN  [i \in 1..Len(kept) |-> Word(kept[i])]

\* lines 121-133: the steps of the first --steps that has a value after it
RECURSIVE stepsFrom(_, _)
stepsFrom(argv, i) ==
    IF i > Len(argv) THEN << >>
    ELSE IF argv[i] = "--steps" /\ i + 1 <= Len(argv) THEN stepsOf(argv[i + 1])
    ELSE stepsFrom(argv, i + 1)

\* line 92: strings.ToLower(os.Args[1])
cmdOf(argv) == Word(ToLower(Chars(argv[2])))

Argvs ==
    { << "setup" >>, << "setup", "--help" >>, << "setup", "-H" >>,
      << "setup", "--list-steps" >>, << "setup", "create" >>,
      << "setup", "Create" >>, << "setup", "apply" >>,
      << "setup", "apply", "given" >>,
      << "setup", "apply", "given", "--steps", "after clone, Before Clone" >>,
      << "setup", "apply", "given", "--steps", ",bogus, ," >>,
      << "setup", "apply", "given", "--steps" >>,
      << "setup", "clone" >>, << "setup", "refresh_token" >>,
      << "setup", "oauth_token" >>, << "setup", "bogus" >> }

InitCLI ==
    /\ args \in Argvs /\ prev = << >> /\ other = "none"
    /\ op = "none" /\ pc = "cli" /\ home = PlainHome
    /\ backupFile = "" /\ selectedSteps = << >> /\ remoteHas \in BOOLEAN
    /\ archive \in Archives(home) /\ err = "nil"
    /\ stageExists \in BOOLEAN
    /\ stage = IF stageExists THEN StaleTree ELSE EmptyTree
    /\ live \in Lives(home) /\ live0 = live
    /\ stepIdx = 0 /\ walk = << >> /\ snap = "none" /\ faults = 0
    /\ out = << >> /\ cloneCalls = 0
    /\ InitManifest

\* the process ending with 0 whatever RunCLI returned
exitWithZero(code) == pc' = "exited" /\ out' = Append(out, [ev |-> "exit", code |-> 0])

\* every return of RunCLI ends the process with the code returned
exit(code) == pc' = "exited" /\ out' = Append(out, [ev |-> "exit", code |-> code])

\* the operation is called with these arguments
Dispatch(o, file, steps) ==
    /\ op' = o /\ backupFile' = file /\ selectedSteps' = steps
    /\ pc' = "start" /\ UNCHANGED out

\* lines 84-165, up to the call of the operation
RunCLI ==
    /\ pc = "cli"
    /\ IF Len(args) < 2
       THEN exit(1) /\ UNCHANGED << op, backupFile, selectedSteps >>
       ELSE LET cmd == cmdOf(args)
            IN  CASE cmd \in { "--help", "-h", "--list-steps" } ->
                        exit(0) /\ UNCHANGED << op, backupFile, selectedSteps >>
                  [] cmd = "create" -> Dispatch("create", "", << >>)
                  [] cmd = "apply"  ->
                        IF Len(args) < 3
                        THEN exit(1) /\ UNCHANGED << op, backupFile, selectedSteps >>
                        ELSE Dispatch("apply", args[3], stepsFrom(args, 4))
                  [] cmd = "clone"  ->
                        Dispatch("apply", "", << "clone all", "after clone" >>)
                  [] cmd \in { "refresh_token", "oauth_token" } ->
                        Dispatch(cmd, "", << >>)
                  [] OTHER -> exit(1) /\ UNCHANGED << op, backupFile, selectedSteps >>
    /\ UNCHANGED << mvars, hvars, other >>
    /\ UNCHANGED << home, remoteHas, archive, err, stageExists, stage, live,
                    live0, stepIdx, walk, snap, faults, cloneCalls >>

\* auth.RunRefreshTokenFlow() and auth.RunOAuthTokenFlow(): they return nil
\* or an error
TokenFlow ==
    /\ op \in { "refresh_token", "oauth_token" } /\ pc = "start"
    /\ \/ Return("nil") /\ UNCHANGED faults
       \/ MayFail /\ faults' = faults + 1 /\ Return("token flow failed")
    /\ UNCHANGED << mvars, hvars, other >>
    /\ UNCHANGED << op, home, backupFile, selectedSteps, remoteHas, archive,
                    stageExists, stage, live, live0, stepIdx, walk, snap, out,
                    cloneCalls >>

\* the operation has returned: return 1 after an error, return 0 otherwise
RunCLIReturn ==
    /\ pc = "returned" /\ Len(args) >= 2
    /\ exit(IF err = "nil" THEN 0 ELSE 1)
    /\ UNCHANGED << mvars, hvars, other >>
    /\ UNCHANGED << op, home, backupFile, selectedSteps, remoteHas, archive, err,
                    stageExists, stage, live, live0, stepIdx, walk, snap, faults,
                    cloneCalls >>

NextCLI == Next \/ RunCLI \/ TokenFlow \/ RunCLIReturn

SpecCLI == InitCLI /\ [][NextCLI]_vars

(***************************************************************************)
(* SpecRace: two invocations of the same operation at the same time, on    *)
(* the same tmpDir and the same live filesystem.  The first one is the     *)
(* pipeline above, statement by statement.  The second one is the same     *)
(* code with nothing failing in it, taken in four steps: its setup, its    *)
(* staging (extraction or mirroring), its work on what is staged (the      *)
(* steps of apply, the tar of create) and its cleanup.                     *)
(***************************************************************************)
\* an invocation that waits for the other one to be over
tmpDirLocked == pc \in { "start", "returned" }

\* apply_backup.go lines 121-128, create_backup.go lines 30-37: tmpDir is a
\* fixed path below home, and nothing is asked before it is removed
tmpDirFree == TRUE

\* is the entry visited by a step, none of the directories above it pruned?
Visited(step, q) == \A d \in Prefixes(q) : ~Skipped(step, home, d)

\* applyFromTmpWithFilter(tmpDir, filter) with nothing failing: the live
\* filesystem after it
liveAfter(step, fs, tree) ==
    LET applied == { q \in DOMAIN tree : Visited(step, q) }
    IN  [q \in DOMAIN fs \cup applied |->
            IF q \in applied /\ tree[q].kind = "file"
            THEN FileNode(tree[q].data,
                          IF q \in DOMAIN fs THEN fs[q].mode ELSE tree[q].mode)
            ELSE IF q \in DOMAIN fs THEN fs[q] ELSE tree[q]]

\* and the StagingRoot after it, the snapshots in originals/
stageAfter(step, fs, tree) ==
    LET saved == { backupPath(q) :
                     q \in { x \in DOMAIN tree :
                               /\ Visited(step, x) /\ tree[x].kind = "file"
                               /\ x \in DOMAIN fs } }
    IN  [q \in DOMAIN tree \cup UNION { Prefixes(x) : x \in saved } |->
            IF q \in saved
            THEN FileNode(fs[Tail(q)].data,
                          IF q \in DOMAIN tree THEN tree[q].mode
                          ELSE tree[Tail(q)].mode)
            ELSE IF q \in DOMAIN tree THEN tree[q] ELSE DirNode("0755")]

\* create_backup.go lines 80-99: CopyAllToTarget(tmpDir) with nothing
\* failing but the entries that are not there
RECURSIVE CopyAllToTarget(_, _)
CopyAllToTarget(items, into) ==
    IF items = << >> THEN into
    ELSE LET src == RelPath(ExpandHome(home, Head(items)))
         IN  CopyAllToTarget(Tail(items),
                 IF src \notin DOMAIN live THEN into
                 ELSE IF live[src].kind = "file"
                 THEN (IF CopyFileOk(into, src)
                       THEN CopyFile(into, src, live[src].data, DefaultMode)
                       ELSE into)
                 ELSE (IF MkdirAllOk(into, src) THEN CopyDir(live, src, into)
                       ELSE into))

InitRace ==
    /\ op \in { "apply", "create" } /\ home = PlainHome
    /\ backupFile = (IF op = "apply" THEN "given" ELSE "")
    /\ selectedSteps = << >> /\ remoteHas = (op = "apply")
    /\ archive = IF op = "apply"
                 THEN TreeOf(PlainFiles(home), "new", "0600", "0700")
                 ELSE EmptyTree
    /\ pc = "start" /\ err = "nil"
    /\ stageExists \in BOOLEAN
    /\ stage = IF stageExists THEN StaleTree ELSE EmptyTree
    /\ live \in Lives(home) /\ live0 = live
    /\ stepIdx = 0 /\ walk = << >> /\ snap = "none" /\ faults = 0
    /\ out = << >> /\ cloneCalls = 0
    /\ InitManifest
    /\ prev = << >> /\ args = << >> /\ other = "start"

\* the second invocation: os.RemoveAll(tmpDir), os.MkdirAll(tmpDir)
OtherSetup ==
    /\ other = "start" /\ tmpDirFree
    /\ stageExists' = TRUE /\ stage' = EmptyTree
    /\ other' = "setup"
    /\ UNCHANGED << mvars, hvars >>
    /\ UNCHANGED << op, home, backupFile, selectedSteps, remoteHas, archive, pc,
                    err, live, live0, stepIdx, walk, snap, faults, out,
                    cloneCalls >>

\* the second invocation: extractTarXz(localPath, tmpDir) of apply, which
\* fails when tmpDir is gone; CopyAllToTarget(tmpDir) of create
OtherStage ==
    /\ other = "setup"
    /\ IF op = "apply"
       THEN IF stageExists
            THEN /\ stage' = extractTarXz(stage, archive)
                 /\ other' = "staged"
                 /\ UNCHANGED stageExists
            ELSE other' = "done" /\ UNCHANGED << stage, stageExists >>
       ELSE /\ stage' = CopyAllToTarget(Items(FilesAdd, Folders), stage)
            /\ stageExists' = (stageExists \/ stage' # EmptyTree)
            /\ other' = "staged"
    /\ UNCHANGED << mvars, hvars >>
    /\ UNCHANGED << op, home, backupFile, selectedSteps, remoteHas, archive, pc,
                    err, live, live0, stepIdx, walk, snap, faults, out,
                    cloneCalls >>

\* the second invocation: the three steps of apply, or the tar of create
\* (into an archive of its own); both fail when tmpDir is gone
OtherWork ==
    /\ other = "staged"
    /\ IF ~stageExists
       THEN other' = "done" /\ UNCHANGED << stage, stageExists, live, cloneCalls >>
       ELSE /\ other' = "worked"
            /\ IF op = "apply"
               THEN \E l1 \in { liveAfter("before clone", live, stage) } :
                    \E s1 \in { stageAfter("before clone", live, stage) } :
                       /\ live' = liveAfter("after clone", l1, s1)
                       /\ stage' = stageAfter("after clone", l1, s1)
                       /\ cloneCalls' = cloneCalls + 1
                       /\ UNCHANGED stageExists
               ELSE UNCHANGED << stage, stageExists, live, cloneCalls >>
    /\ UNCHANGED << mvars, hvars >>
    /\ UNCHANGED << op, home, backupFile, selectedSteps, remoteHas, archive, pc,
                    err, live0, stepIdx, walk, snap, faults, out >>

\* the second invocation: os.RemoveAll(tmpDir) at its end
OtherCleanup ==
    /\ other = "worked"
    /\ stageExists' = FALSE /\ stage' = EmptyTree
    /\ other' = "done"
    /\ UNCHANGED << mvars, hvars >>
    /\ UNCHANGED << op, home, backupFile, selectedSteps, remoteHas, archive, pc,
                    err, live, live0, stepIdx, walk, snap, faults, out,
                    cloneCalls >>

NextRace == Next \/ OtherSetup \/ OtherStage \/ OtherWork \/ OtherCleanup

SpecRace == InitRace /\ [][NextRace]_vars

(***************************************************************************)
(* Properties.                                                             *)
(***************************************************************************)
\* the "Applying backup step: ..." lines printed so far, in order
Ran ==
    LET lines == SelectSeq(out, LAMBDA e : e.ev = "step")
    IN  [i \in 1..Len(lines) |-> lines[i].name]

\* the warnings printed so far, in order
Warned ==
    LET lines == SelectSeq(out, LAMBDA e : e.ev = "warn")
    IN  [i \in 1..Len(lines) |-> lines[i].name]

IsWrite(e) == e.ev \in { "mkdir", "snapshot", "copy" }

\* the step a requested name stands for, read off the names themselves
KnownAs(sel) ==
    CASE sel \in { "Before Clone", "before clone" } -> "before clone"
      [] sel \in { "CLONE ALL", "clone all" }       -> "clone all"
      [] sel \in { "After Clone", "after clone" }   -> "after clone"
      [] OTHER                                      -> "none"

\* the steps that are to run, in the defined order
Expected ==
    SelectSeq(StepNames,
              LAMBDA s : \/ selectedSteps = << >>
                         \/ \E i \in 1..Len(selectedSteps) :
                               KnownAs(selectedSteps[i]) = s)

\* C1: the steps that run are all three when selectedSteps is empty and
\* otherwise exactly those a requested name equals up to letter case; they
\* run in the order before clone, clone all, after clone whatever the order
\* of the request; and every write of a step is done after that step began
\* and before the next one begins.
C1_StepsInDefinedOrder ==
    /\ IsPrefix(Ran, Expected)
    /\ (op = "apply" /\ pc = "returned" /\ err = "nil") => Ran = Expected
    /\ \A i \in 1..Len(out) :
          IsWrite(out[i]) =>
             \E j \in 1..(i - 1) :
                /\ out[j] = [ev |-> "step", name |-> out[i].name]
                /\ \A k \in (j + 1)..i : out[k].ev # "step"
    /\ pc \in { "walk", "snapshot", "copy", "clone" } =>
          Ran # << >> /\ Ran[Len(Ran)] = StepNames[stepIdx]

\* a request in the reverse order and in another letter case has returned,
\* both file steps having written
C1_Witness ==
    /\ op = "apply" /\ pc = "returned" /\ err = "nil"
    /\ selectedSteps = << "after clone", "Before Clone" >>
    /\ Ran = << "before clone", "after clone" >>
    /\ \E i, j \in 1..Len(out) :
          /\ out[i].ev = "copy" /\ out[i].name = "before clone"
          /\ out[j].ev = "copy" /\ out[j].name = "after clone"

NoneKnown ==
    /\ selectedSteps # << >>
    /\ \A i \in 1..Len(selectedSteps) : KnownAs(selectedSteps[i]) = "none"

\* C2: when no requested name is a step's name, no step runs (nothing is
\* written, the cloner is not called), one warning is printed for each
\* requested name, and the call, once the archive is extracted, returns nil.
C2_UnknownNamesRunNothing ==
    (op = "apply" /\ NoneKnown) =>
        /\ Ran = << >>
        /\ cloneCalls = 0
        /\ live = live0
        /\ \A i \in 1..Len(out) : ~IsWrite(out[i])
        /\ stepIdx >= 1 => Warned = selectedSteps
        /\ (pc = "returned" /\ stepIdx >= 1) => err = "nil"

C2_Witness ==
    /\ op = "apply" /\ pc = "returned" /\ err = "nil"
    /\ selectedSteps = << "bogus", "bogus" >>
    /\ Warned = << "bogus", "bogus" >>
    /\ archive # EmptyTree

\* the relative paths of an archive made under home h
RelPaths(h) == UNION { Prefixes(f) : f \in ArchiveFiles(h) }

\* C3: for every relative path and every home directory exactly one of the
\* two filters is true; home/alice/github.com/org/repo/file is left out by
\* "before clone" and taken by "after clone", <home>/.gitconfig and
\* <home>/.zshrc are taken by "before clone" and left out by "after clone".
C3_FiltersPartition ==
    /\ \A rel \in RelPaths(home) :
          BeforeCloneFilter(home, rel) # AfterCloneFilter(home, rel)
    /\ LET hosted == home \o << "github.com", "repo", "file" >>
       IN  ~BeforeCloneFilter(home, hosted) /\ AfterCloneFilter(home, hosted)
    /\ \A name \in { ".gitconfig", ".zshrc" } :
          /\ BeforeCloneFilter(home, home \o << name >>)
          /\ ~AfterCloneFilter(home, home \o << name >>)

\* C4: when a file step has run and no I/O operation failed, every staged
\* file outside the reserved areas that the step's filter takes is at its
\* live target with the staged content.
C4_StagedFilesApplied ==
    (op = "apply" /\ pc = "returned" /\ err = "nil" /\ faults = 0) =>
        \A i \in 1..Len(Ran) :
            HasFilter(Ran[i]) =>
                \A rel \in DOMAIN archive :
                    ( /\ archive[rel].kind = "file"
                      /\ ~Reserved(rel)
                      /\ Filter(Ran[i], home, rel) )
                    => /\ Target(rel) \in DOMAIN live
                       /\ live[Target(rel)].data = archive[rel].data

\* C5: whenever a live file that exists is overwritten, its content is
\* already in originals/<relative path> of the StagingRoot, unless the
\* snapshot of that entry failed.
C5_SnapshotBeforeOverwrite ==
    [][ \A p \in DOMAIN live :
           ( /\ live[p].kind = "file"
             /\ p \in DOMAIN live'
             /\ live'[p].data # live[p].data )
           => \/ snap = "failed"
              \/ /\ backupPath(p) \in DOMAIN stage
                 /\ stage[backupPath(p)].data = live[p].data ]_vars

\* a live file has been overwritten and its old content is in originals/
C5_Witness ==
    \E p \in DOMAIN live0 :
        /\ live0[p].kind = "file"
        /\ p \in DOMAIN live /\ live[p].data = << "new", p >>
        /\ backupPath(p) \in DOMAIN stage
        /\ stage[backupPath(p)].data = live0[p].data

\* the paths a set declares, over its three lists
AllPaths(set) ==
    [i \in 1..Len(set.Folders) |-> set.Folders[i].Path]
        \o [i \in 1..Len(set.FilesAdd) |-> set.FilesAdd[i].Path]
        \o set.FilesRemove

RECURSIVE Concat(_, _)
\* the lists F gives for the sets of `active`, one after the other
Concat(F(_), active) ==
    IF active = << >> THEN << >>
    ELSE F(Head(active)) \o Concat(F, Tail(active))

SamePath(p, q) == EqualFold(Spell(p), Spell(q))

\* the paths declared more than once by the active sets
SharedPaths ==
    LET all == Concat(AllPaths, ActiveBackupSets)
    IN  { all[i] : i \in { i \in 1..Len(all) :
                             \E j \in 1..Len(all) :
                                 j # i /\ SamePath(all[i], all[j]) } }

FoldersOf(set) == set.Folders

FilesAddOf(set) == set.FilesAdd

FilesRemoveOf(set) == set.FilesRemove

\* C6: when the active sets share no path, recomputeActiveSlices does not
\* panic and Folders, FilesAdd and FilesRemove are the lists of the active
\* sets one after the other, in the order of the selection.
C6_FlattenIsConcatenation ==
    SharedPaths = {} =>
        /\ panicked = NoPanic
        /\ Folders = Concat(FoldersOf, ActiveBackupSets)
        /\ FilesAdd = Concat(FilesAddOf, ActiveBackupSets)
        /\ FilesRemove = Concat(FilesRemoveOf, ActiveBackupSets)

\* two sets that share nothing were selected, in the other order than the
\* registry's
C6_Witness ==
    /\ calls > 0
    /\ ActiveBackupSets = << ExtraBackupSet, ConfigurationBackupSet >>
    /\ SharedPaths = {}
    /\ Len(FilesAdd) = 5

\* is the path among those the panic named?
Named(p) ==
    \E cat \in DOMAIN panicked :
        \E i \in 1..Len(panicked[cat]) : SamePath(panicked[cat][i], p)

\* C7: when a path is declared more than once by the active sets, whatever
\* the categories and the sets of the two declarations, and the letter case
\* left aside, recomputeActiveSlices panics and names that path.
C7_SharedPathPanics ==
    \A p \in SharedPaths : panicked # NoPanic /\ Named(p)

\* C8: when create or apply has returned, after the StagingRoot was made and
\* for any reason but a failure in the middle of a walk, the StagingRoot is
\* no longer there.
C8_StagingRootRemoved ==
    ( /\ pc = "returned"
      /\ err \notin { "could not get user home", "could not get user home dir",
                      "could not create tmp dir",
                      "could not apply backup step" } )
    => ~stageExists

\* C9: a staged file that cannot be copied to its live target does not end
\* the walk: apply does not return with the walk stopped at a file.
C9_CopyFailureNotFatal ==
    ( /\ op = "apply" /\ pc = "returned"
      /\ walk # << >>
      /\ Head(walk) \in DOMAIN stage
      /\ stage[Head(walk)].kind = "file" )
    => err = "nil"

CloneFailed == op = "apply" /\ err = "could not run 'clone all' step"

\* C10: when the "clone all" step fails the call has returned with the
\* error at once: the step line of "clone all" is the last thing done, no
\* "after clone" step began or wrote, and the live files no longer change.
C10_CloneFailureEndsApply ==
    /\ [](CloneFailed =>
            /\ pc = "returned"
            /\ out # << >>
            /\ out[Len(out)] = [ev |-> "step", name |-> "clone all"]
            /\ \A i \in 1..Len(out) :
                  (out[i].ev = "step" \/ IsWrite(out[i]))
                      => out[i].name # "after clone")
    /\ [][CloneFailed => live' = live]_vars

\* the clone failed with "after clone" requested and a staged file that
\* "after clone" would have applied
C10_Witness ==
    /\ CloneFailed /\ pc = "returned"
    /\ \E i \in 1..Len(Expected) : Expected[i] = "after clone"
    /\ home = << >>
    /\ << "setup", ".env" >> \in DOMAIN stage
    /\ << "setup", ".env" >> \notin DOMAIN live

NotFetched ==
    err \in { "could not find latest backup in Google Drive",
              "failed to download backup from Google Drive",
              "could not extract backup" }

\* C11: when no archive can be resolved, or the download or the extraction
\* fails, apply has returned that error and no step has run: the live files
\* are as before the call, nothing was written and the cloner was not
\* called.  A step runs only on an archive that was found and extracted.
C11_FetchFailureBeforeAnyStep ==
    op = "apply" =>
        /\ NotFetched =>
              /\ pc = "returned"
              /\ stepIdx = 0 /\ Ran = << >>
              /\ live = live0
              /\ \A i \in 1..Len(out) : ~IsWrite(out[i])
              /\ cloneCalls = 0
        /\ stepIdx >= 1 =>
              /\ remoteHas /\ backupFile # ""
              /\ \A q \in DOMAIN archive :
                    q \in DOMAIN stage \/ pc = "returned"
        /\ (pc = "returned" /\ ~remoteHas) => err # "nil"

\* the extraction failed with all steps requested and live files to
\* overwrite
C11_Witness ==
    /\ op = "apply" /\ pc = "returned"
    /\ err = "could not extract backup"
    /\ selectedSteps = << >>
    /\ live0 # EmptyTree /\ live = live0

\* the "Error copying ..." lines printed so far
ErrorLines == SelectSeq(out, LAMBDA e : e.ev = "error")

\* the source of a manifest entry in the live tree
SourceOf(item) == RelPath(ExpandHome(home, item))

\* the entry is in the archive as it is in the live tree
Mirrored(item) ==
    \A q \in DOMAIN live :
        IsPrefix(SourceOf(item), q) =>
            /\ q \in DOMAIN archive
            /\ archive[q].kind = live[q].kind
            /\ archive[q].data = live[q].data

\* the entries of the active manifest: the added paths and the selected
\* contents of the folders
Entries ==
    { FilesAdd[i].Path : i \in 1..Len(FilesAdd) }
        \cup UNION { { Folders[j].Path \o << Folders[j].Contents[k] >> :
                         k \in 1..Len(Folders[j].Contents) } :
                     j \in 1..Len(Folders) }

\* C12: create goes over all the entries of the manifest: an entry whose
\* source is missing or cannot be read gives one error line, and no entry
\* gives more than one; all the other entries are in the archive as they
\* are in the live tree; and when nothing else failed, create returns nil.
C12_CreateIsBestEffort ==
    op = "create" =>
        LET missing == { e \in Entries : SourceOf(e) \notin DOMAIN live }
            failed(item) == \E k \in 1..Len(ErrorLines) :
                                ErrorLines[k].path = item
        IN  /\ \A k, l \in 1..Len(ErrorLines) :
                  ErrorLines[k].path = ErrorLines[l].path => k = l
            /\ \A k \in 1..Len(ErrorLines) : ErrorLines[k].path \in Entries
            /\ (pc = "cleanup" \/ (pc = "returned" /\ archive # EmptyTree)) =>
                  \A e \in Entries :
                      /\ e \in missing => failed(e)
                      /\ ~failed(e) => Mirrored(e)
            /\ ( /\ pc = "returned"
                 /\ Len(ErrorLines) = Cardinality(missing) + faults )
               => /\ err = "nil"
                  /\ out[Len(out)] = [ev |-> "created"]

\* one entry could not be read, the four others are in the archive, and
\* create returned nil
C12_Witness ==
    /\ op = "create" /\ pc = "returned" /\ err = "nil"
    /\ live # EmptyTree
    /\ Len(ErrorLines) = 1
    /\ Cardinality({ e \in Entries : Mirrored(e) }) = 4

\* the invocation before this one was of `what` and this one is an apply
\* that returned nil, no I/O operation having failed in either
AppliedAfter(what) ==
    /\ Len(prev) = 1 /\ prev[1].op = what
    /\ op = "apply" /\ pc = "returned" /\ err = "nil"
    /\ faults = 0

Copies == SelectSeq(out, LAMBDA e : e.ev = "copy")

C14_ApplyIdempotent ==
    AppliedAfter("apply") =>
        /\ DOMAIN live = DOMAIN live0
        /\ \A q \in DOMAIN live :
              live[q].kind = live0[q].kind /\ live[q].data = live0[q].data
        /\ \A i \in 1..Len(out) :
              out[i].ev = "copy" =>
                 \E j \in 1..(i - 1) :
                    out[j] = [out[i] EXCEPT !.ev = "snapshot"]

\* the first apply created the files, the second overwrote them
C14_Witness ==
    /\ AppliedAfter("apply")
    /\ prev[1].before = EmptyTree
    /\ Len(Copies) = 3
    /\ Len(SelectSeq(out, LAMBDA e : e.ev = "snapshot")) = 3
    /\ live = live0

\* C17: an added path of the active manifest with Update = false whose live
\* file exists when apply is invoked keeps its content.
C17_PreserveIfExists ==
    op = "apply" =>
        \A i \in 1..Len(FilesAdd) :
            LET t == SourceOf(FilesAdd[i].Path)
            IN  ( /\ ~FilesAdd[i].Update
                  /\ t \in DOMAIN live0 /\ live0[t].kind = "file" )
                => /\ t \in DOMAIN live
                   /\ live[t].data = live0[t].data

\* C18: when apply has returned nil, no path of FilesRemove is in the live
\* tree, and none was copied.
C18_RemovalsDeleted ==
    /\ (op = "apply" /\ pc = "returned" /\ err = "nil") =>
          \A i \in 1..Len(FilesRemove) :
              SourceOf(FilesRemove[i]) \notin DOMAIN live
    /\ op = "apply" =>
          \A i \in 1..Len(FilesRemove) : \A k \in 1..Len(Copies) :
              Copies[k].path # SourceOf(FilesRemove[i])

\* C15: the copy of a tree with an exclusion set makes nothing under the
\* destination whose first segment is excluded (what is there of such
\* paths was there before), makes every other directory and file of the
\* source once it has returned nil, and leaves the source as it was.
C15_CopyTreeExcludes ==
    op = "copytree" =>
        /\ \A q \in DOMAIN stage :
              q[1] \in { "conversations", "extensions" } =>
                  q \in DOMAIN DstBefore /\ stage[q] = DstBefore[q]
        /\ (pc = "returned" /\ err = "nil") =>
              \A q \in DOMAIN live :
                  q[1] \notin { "conversations", "extensions" } =>
                      /\ q \in DOMAIN stage
                      /\ stage[q].kind = live[q].kind
                      /\ stage[q].data = live[q].data
        /\ live = live0

\* a tree with excluded entries at the top, the same name further down and
\* other files was copied to an empty destination
C15_Witness ==
    /\ op = "copytree" /\ pc = "returned" /\ err = "nil"
    /\ DOMAIN live0 = UNION { Prefixes(f) : f \in TreeFiles }
    /\ << "a", "conversations", "file" >> \in DOMAIN stage
    /\ << "conversations" >> \notin DOMAIN stage
    /\ << "extensions" >> \notin DOMAIN stage

\* the set a name stands for, letter case aside; "nosuch" is no set's name
SetNamed(name) ==
    CASE name = "default"  -> ConfigurationBackupSet
      [] name = "AliceBot" -> AliceBotBackupSet
      [] name = "extra"    -> ExtraBackupSet
      [] name = "mixed"    -> MixedBackupSet
      [] name = "shout"    -> ShoutBackupSet

\* the sets the names stand for, in the order of the names
Wanted(names) ==
    LET known == SelectSeq(names, LAMBDA n : n # "nosuch")
    IN  [i \in 1..Len(known) |-> SetNamed(known[i])]

\* C16: a call that activates sets by name makes the active selection the
\* registered sets among the names, in the order given, the unknown names
\* left out; when no name is registered the active selection and Folders,
\* FilesAdd and FilesRemove are as they were before the call.
C16_ActivateByName ==
    [][ IF Wanted(args') # << >>
        THEN ActiveBackupSets' = Wanted(args')
        ELSE UNCHANGED << ActiveBackupSets, Folders, FilesAdd, FilesRemove >>
      ]_vars

\* two sets were activated in the other order than the registry's, an
\* unknown name between them aside, and a call with unknown names only
\* followed
C16_Witness ==
    /\ calls = 2
    /\ args = << "nosuch", "nosuch" >>
    /\ ActiveBackupSets = << ExtraBackupSet, ConfigurationBackupSet >>
    /\ Len(FilesAdd) = 5

\* is the first segment of the path a reserved internal name?
Internal(q) == q # << >> /\ q[1] \in { "tmp", "originals" }

\* C19: no step of an apply makes a directory or copies a file for an entry
\* of the StagingRoot under tmp or originals, whether the archive brought
\* the entry or an earlier step wrote it as a snapshot: no such write is
\* done, the walk never stands inside such a directory, and the live
\* filesystem holds no such path.
C19_ReservedNeverApplied ==
    op = "apply" =>
        /\ \A i \in 1..Len(out) :
              out[i].ev \in { "mkdir", "copy" } => ~Internal(out[i].path)
        /\ \A q \in DOMAIN live : ~Internal(q)
        /\ (pc \in { "snapshot", "copy" } /\ walk # << >>) =>
              ~Internal(Head(walk))

\* the step after clone is at work on a StagingRoot that holds tmp/ and
\* originals/ of the archive and a snapshot the step before clone wrote
C19_Witness ==
    /\ op = "apply" /\ pc = "copy" /\ StepNames[stepIdx] = "after clone"
    /\ << "tmp", "old" >> \in DOMAIN stage
    /\ << "originals", "old" >> \in DOMAIN stage
    /\ \E i \in 1..Len(out) :
          /\ out[i].ev = "snapshot" /\ out[i].name = "before clone"
          /\ (<< "originals" >> \o out[i].path) \in DOMAIN stage

\* C20: when a staged file has been copied over its live target, the
\* target has the permission bits of the staged file, whether the target
\* was made by the copy or was there before with other bits.
C20_AppliedModeIsStagedMode ==
    [][ (/\ op = "apply"
         /\ Len(out') = Len(out) + 1
         /\ out'[Len(out')].ev = "copy")
        => LET rel == out'[Len(out')].path
           IN  live'[rel].mode = stage[rel].mode
      ]_vars

\* the configured repositories: where each one goes and the branch asked for
Configured ==
    { [dir |-> << "home", "tools" >>, branch |-> "main"],
      [dir |-> << "home", "github.com", "alicebot" >>, branch |-> "main"],
      [dir |-> << "home", "Desktop", "github.com", "discordcore" >>,
       branch |-> "alice-main"] }

\* is everything at and below dir as it was when the call began?
Untouched(dir) ==
    \A q \in DOMAIN live \cup DOMAIN live0 :
        IsPrefix(dir, q) =>
            q \in DOMAIN live /\ q \in DOMAIN live0 /\ live[q] = live0[q]

\* C21: during a call of CloneAll a repository whose target directory was
\* there when the call began is left as it was, with no clone and no switch
\* of branch done for it; and a call made after a call that returned nil
\* changes nothing and, git being still there, returns nil as well.
C21_EnsureAllIdempotent ==
    op = "cloneall" =>
        /\ \A c \in Configured :
              c.dir \in DOMAIN live0 =>
                  /\ Untouched(c.dir)
                  /\ \A i \in 1..Len(out) : out[i].path # c.dir
        /\ (prev # << >> /\ prev[Len(prev)].err = "nil") =>
              /\ live = live0
              /\ out = << >>
              /\ (pc = "returned" /\ faults = prev[Len(prev)].faults)
                     => err = "nil"

\* a first call found one repository there, on another branch, cloned the
\* others and returned nil; the second call has returned
C21_Witness ==
    /\ op = "cloneall" /\ pc = "returned" /\ err = "nil"
    /\ Len(prev) = 1 /\ prev[1].err = "nil"
    /\ DOMAIN prev[1].before = Prefixes(<< "home", "tools", "HEAD" >>)
    /\ live[<< "home", "tools", "HEAD" >>] = prev[1].before[<< "home", "tools", "HEAD" >>]
    /\ live[<< "home", "Desktop", "github.com", "discordcore", "HEAD" >>].data
           = << "alice-main" >>

\* C30: when CloneAll has returned nil, every configured repository is at
\* its target directory and on the branch asked for, also when an earlier
\* call failed part-way.
C30_SuccessMeansAllOnBranch ==
    (op = "cloneall" /\ pc = "returned" /\ err = "nil") =>
        \A c \in Configured :
            /\ c.dir \o << "HEAD" >> \in DOMAIN live
            /\ live[c.dir \o << "HEAD" >>].data = << c.branch >>

\* the code the process ended with
ExitCode == out[Len(out)].code

HoldsStale(tree) ==
    \E q \in DOMAIN tree :
        /\ tree[q].kind = "file" /\ tree[q].data # << >>
        /\ tree[q].data[1] = "stale"

\* C23: what an earlier invocation left in the StagingRoot is never put
\* into the archive create() makes and never applied to the live filesystem
\* by apply().
C23_FreshStagingRoot ==
    /\ ~HoldsStale(live)
    /\ op = "create" => ~HoldsStale(archive)

Normalized(path) == ToLower(Spell(Clean(ExpandHome(home, path))))

\* do two entries of the list denote the same path?
Collide(paths) ==
    \E i, j \in 1..Len(paths) :
        i # j /\ Normalized(paths[i]) = Normalized(paths[j])

FolderPaths(set) == [i \in 1..Len(set.Folders) |-> set.Folders[i].Path]

FileAddPaths(set) == [i \in 1..Len(set.FilesAdd) |-> set.FilesAdd[i].Path]

\* C25: when two entries of one category of the active sets denote the same
\* path, written in another letter case, with a separator at the end, or
\* with the home directory written out, the flattening fails.
C25_NormalizedDuplicatesFail ==
    ( \/ Collide(Concat(FolderPaths, ActiveBackupSets))
      \/ Collide(Concat(FileAddPaths, ActiveBackupSets))
      \/ Collide(Concat(FilesRemoveOf, ActiveBackupSets)) )
    => panicked # NoPanic

\* where an apply is: 0 before the download is done, 1 when the archive is
\* downloaded, 1 + i when it is extracted and step i is the one at hand,
\* and after the last step the cleanup
Phase ==
    CASE pc \in { "start", "resolve", "download" } -> 0
      [] pc = "extract" -> 1
      [] pc \in { "loop", "walk", "snapshot", "copy", "clone" } -> 1 + stepIdx
      [] OTHER -> 0

\* C26: an apply goes from one phase to the next one, in the order Init,
\* Downloaded, Extracted and step 1, step 2, step 3, Cleanup, or ends with
\* an error; it returns nil only from the cleanup; and it does return.
C26_ApplyTerminatesInOrder ==
    /\ [][ (op = "apply" /\ pc # "returned") =>
              /\ pc' # "returned" => Phase' \in { Phase, Phase + 1 }
              /\ (pc' = "returned" /\ err' = "nil") =>
                    pc = "loop" /\ stepIdx = Len(StepNames) + 1
         ]_vars
    /\ [][ pc = "returned" => pc' = "returned" ]_vars
    /\ op = "apply" => <>(pc = "returned")

\* an apply of all the steps has returned nil, each step having been the
\* one at hand
C26_Witness ==
    /\ op = "apply" /\ pc = "returned" /\ err = "nil"
    /\ stepIdx = Len(StepNames) + 1
    /\ Ran = StepNames
    /\ live # live0


\* the first invocation holds content in the StagingRoot that it has not
\* finished with: the copies of create not yet archived, the extracted
\* entries of apply not yet applied
InUse ==
    \/ op = "create" /\ pc \in { "copy", "archive" }
    \/ op = "apply" /\ pc \in { "loop", "walk", "snapshot", "copy" }

C28_ListsAreFlatteningOfActive ==
    /\ Folders = Merge(ActiveBackupSets).folders
    /\ FilesAdd = Merge(ActiveBackupSets).filesAdd
    /\ FilesRemove = Merge(ActiveBackupSets).filesRemove


\* is the live filesystem another one at q after the step than before it?
Written(q) ==
    q \notin DOMAIN live \/ q \notin DOMAIN live' \/ live'[q] # live[q]

\* C29: a statement of an apply changes the live filesystem only at the
\* path of an entry of the StagingRoot that is not under tmp or originals
\* and that the filter of the step at work lets through, and that step is
\* one of the selected ones; everything else in the live filesystem stays
\* as it is.
C29_WritesOnlyWhereSelected ==
    [][ op = "apply" =>
          \A q \in DOMAIN live \cup DOMAIN live' :
             Written(q) =>
                /\ stepIdx \in 1..Len(StepNames)
                /\ shouldRun(selectedSteps, StepNames[stepIdx])
                /\ HasFilter(StepNames[stepIdx])
                /\ q \in DOMAIN stage /\ ~Reserved(q)
                /\ Filter(StepNames[stepIdx], home, q)
      ]_vars

\* an apply of the step before clone alone has returned: it wrote to the
\* live filesystem, and a file of the archive that only the step after
\* clone lets through is not there
C29_Witness ==
    /\ op = "apply" /\ pc = "returned" /\ err = "nil"
    /\ selectedSteps = << "Before Clone" >>
    /\ live # live0
    /\ \E q \in DOMAIN archive :
          /\ archive[q].kind = "file" /\ ~Reserved(q)
          /\ AfterCloneFilter(home, q) /\ ~BeforeCloneFilter(home, q)
          /\ q \notin DOMAIN live
    /\ \E i \in 1..Len(out) : out[i].ev = "copy"

=============================================================================
